---- MODULE Spec2Model ----
(***************************************************************************)
(* A model of the Tallman dashboard maintenance scripts and of the         *)
(* database wrapper servers.                                               *)
(*                                                                         *)
(*   SpecGen  generate_complete_dashboard.py run on hooks/dashboard-data   *)
(*   Spec     one wrapper server process answering the calls of its tools  *)
(*   SpecPool a pooled server object whose callers take and give back      *)
(*            connections                                                  *)
(*   SpecPatch one of the patch scripts run on its data file               *)
(*   SpecHttp one HTTP server process from main() on: the connection       *)
(*            set-up, then POST requests; SpecHttpFair adds that the       *)
(*            set-up steps are taken                                       *)
(*   SpecRebuild rebuild_dashboard.py run on a source data file            *)
(*                                                                         *)
(* Texts (SQL statements, field values) are TLA+ strings; the Python       *)
(* string methods the code applies to them are the operators of the first  *)
(* section, computed character by character.                               *)
(***************************************************************************)
EXTENDS Integers, Sequences, FiniteSets, TLC

VARIABLES
    file,       \* generator: content of hooks/dashboard-data.json
    prev,       \* generator: content of the file before the last run
    created,    \* generator: ids the last run built from its templates
    runs,       \* generator: number of runs so far
    variant,    \* wrapper: which server module this process runs
    dbUp,       \* wrapper: whether the database accepts connections
    dbEpoch,    \* wrapper: number of outages so far (a connection is stale after one)
    srv,        \* wrapper: the server object's connection fields
    req,        \* wrapper: the last execute_sql call
    resp,       \* wrapper: what that call returned
    trace,      \* wrapper: what that call did (statements executed, exception raised)
    pc,         \* wrapper: "idle", "returned" or "answered" while the caller holds the
                \* result, "waiting1" or "waiting2" while a call sleeps
    held,       \* pool: per epoch, the connections callers got and have not given back
    poolCall,   \* pool: the last call on the server object and what it did
    script,     \* patch: which patch script this is
    doc,        \* patch: content of the data file the script works on
    docHist,    \* patch: content of the file before each run so far
    patch,      \* patch: how the last run ended (exception, whether it wrote the file)
    patchRuns,  \* patch: number of runs so far
    http,       \* http: the last POST the server answered and what it sent
    setup,      \* http: how far the connection set-up at start has come
    tool,       \* wrapper: the last call of a tool other than execute_sql
    source,     \* rebuild: content of the source data file
    rebuilt     \* rebuild: what rebuild_dashboard.py wrote, and how it ended

genVars == <<file, prev, created, runs>>
srvVars == <<variant, dbUp, dbEpoch, srv, req, resp, trace, pc>>
poolVars == <<held, poolCall>>
patchVars == <<script, doc, docHist, patch, patchRuns>>
httpVars == <<http, setup>>
toolVars == <<tool>>
rebuildVars == <<source, rebuilt>>
extraVars == <<poolVars, patchVars, httpVars, toolVars, rebuildVars>>
vars == <<file, prev, created, runs, variant, dbUp, dbEpoch, srv, req, resp, trace, pc,
          held, poolCall, script, doc, docHist, patch, patchRuns, http, setup,
          tool, source, rebuilt>>

\* the parts of the model a specification does not use stay at "none"
PoolIdle == held = "none" /\ poolCall = "none"
PatchIdle ==
    script = "none" /\ doc = "none" /\ docHist = "none" /\ patch = "none" /\ patchRuns = 0
HttpIdle == http = "none" /\ setup = "none"
ToolIdle == tool = "none"
RebuildIdle == source = "none" /\ rebuilt = "none"
ExtraIdle == PoolIdle /\ PatchIdle /\ HttpIdle /\ ToolIdle /\ RebuildIdle

(***************************************************************************)
(* Python str methods                                                      *)
(***************************************************************************)
Chr(s, i) == SubSeq(s, i, i)

\* The texts of the model are made of the characters a string of the module can
\* hold: the code points 1 to 255.  The cased letters among them that have an
\* upper-case form of one character in that range, and these forms
Lowers == "abcdefghijklmnopqrstuvwxyzàáâãäåæçèéêëìíîïðñòóôõöøùúûüýþ"
Uppers == "ABCDEFGHIJKLMNOPQRSTUVWXYZÀÁÂÃÄÅÆÇÈÉÊËÌÍÎÏÐÑÒÓÔÕÖØÙÚÛÜÝÞ"
Digits == "0123456789"

IndexIn(alphabet, c) ==
    IF \E i \in 1..Len(alphabet) : Chr(alphabet, i) = c
    THEN CHOOSE i \in 1..Len(alphabet) : Chr(alphabet, i) = c
    ELSE 0

\* the characters of s, one element for each
Chars(s) == [i \in 1..Len(s) |-> Chr(s, i)]

\* c.upper(), as the sequence of the characters of the result: the sharp s
\* becomes "SS".  The upper-case forms of the micro sign and of y with
\* diaeresis lie outside the strings of the module; the elements "U+039C" and
\* "U+0178" stand for these two characters, and every other element is a string
\* of one character
UpperChar(c) ==
    IF c = "ß" THEN <<"S", "S">>
    ELSE IF c = "µ" THEN <<"U+039C">>
    ELSE IF c = "ÿ" THEN <<"U+0178">>
    ELSE IF IndexIn(Lowers, c) > 0 THEN <<Chr(Uppers, IndexIn(Lowers, c))>>
    ELSE <<c>>
LowerChar(c) == IF IndexIn(Uppers, c) > 0 THEN Chr(Lowers, IndexIn(Uppers, c)) ELSE c
\* the title-case form of c: that of the sharp s is "Ss".  str.title() is
\* called on the names the generator's lists hold, which have neither of the
\* two characters whose upper-case form is outside the strings of the module
TitleChar(c) ==
    IF c = "ß" THEN "Ss"
    ELSE IF IndexIn(Lowers, c) > 0 THEN Chr(Uppers, IndexIn(Lowers, c)) ELSE c
\* the cased characters: the letters above and the five lower-case characters
\* without an upper-case letter of their own in the range
IsCased(c) ==
    \/ IndexIn(Lowers, c) > 0
    \/ IndexIn(Uppers, c) > 0
    \/ c \in {"ª", "µ", "º", "ß", "ÿ"}

\* str.upper(), as the sequence of the characters of the result
RECURSIVE Upper(_)
Upper(s) ==
    IF Len(s) = 0 THEN <<>>
    ELSE IF Len(s) = 1 THEN UpperChar(s)
    ELSE Upper(SubSeq(s, 1, Len(s) \div 2)) \o Upper(SubSeq(s, Len(s) \div 2 + 1, Len(s)))

\* str.lower()
RECURSIVE Lower(_)
Lower(s) ==
    IF Len(s) <= 1 THEN LowerChar(s)
    ELSE Lower(SubSeq(s, 1, Len(s) \div 2)) \o Lower(SubSeq(s, Len(s) \div 2 + 1, Len(s)))

\* str.title(): a cased character is upper-cased after an uncased one (or at the
\* start) and lower-cased after a cased one
RECURSIVE TitleFrom(_, _)
TitleFrom(s, i) ==
    IF i > Len(s) THEN ""
    ELSE (IF i > 1 /\ IsCased(Chr(s, i - 1)) THEN LowerChar(Chr(s, i)) ELSE TitleChar(Chr(s, i)))
         \o TitleFrom(s, i + 1)
Title(s) == TitleFrom(s, 1)

\* str.replace(old, new) for a one-character old
RECURSIVE ReplaceChar(_, _, _)
ReplaceChar(s, old, new) ==
    IF s = "" THEN ""
    ELSE (IF Chr(s, 1) = old THEN new ELSE Chr(s, 1)) \o ReplaceChar(Tail(s), old, new)

\* str.replace(old, new): the occurrences of old, left to right, without overlap
RECURSIVE Replace(_, _, _)
Replace(s, old, new) ==
    IF Len(s) < Len(old) THEN s
    ELSE IF SubSeq(s, 1, Len(old)) = old
         THEN new \o Replace(SubSeq(s, Len(old) + 1, Len(s)), old, new)
         ELSE Chr(s, 1) \o Replace(Tail(s), old, new)

\* the characters str.strip() removes (str.isspace): the tab, line feed, vertical
\* tab, form feed, carriage return, the separators 0x1C to 0x1F, the space, the
\* next-line character 0x85 and the no-break space 0xA0
IsSpace(c) ==
    c \in {" ", "\t", "\n", "\r", "\f", "", "", "", "", "", "", " "}

\* str.strip()
RECURSIVE LStrip(_)
LStrip(s) == IF s # "" /\ IsSpace(Chr(s, 1)) THEN LStrip(Tail(s)) ELSE s
RECURSIVE RStrip(_)
RStrip(s) == IF s # "" /\ IsSpace(Chr(s, Len(s))) THEN RStrip(SubSeq(s, 1, Len(s) - 1)) ELSE s
Strip(s) == RStrip(LStrip(s))

\* str.strip() of a text given as the sequence of its characters
RECURSIVE LStripChars(_)
LStripChars(cs) == IF cs # <<>> /\ IsSpace(cs[1]) THEN LStripChars(Tail(cs)) ELSE cs
RECURSIVE RStripChars(_)
RStripChars(cs) ==
    IF cs # <<>> /\ IsSpace(cs[Len(cs)]) THEN RStripChars(SubSeq(cs, 1, Len(cs) - 1)) ELSE cs
StripChars(cs) == RStripChars(LStripChars(cs))

\* str.startswith(prefix); s and prefix are both strings or both sequences of
\* characters, and so are s and sub below
StartsWith(s, prefix) == Len(s) >= Len(prefix) /\ SubSeq(s, 1, Len(prefix)) = prefix

\* sub in s
Contains(s, sub) == \E i \in 1..(Len(s) - Len(sub) + 1) : SubSeq(s, i, i + Len(sub) - 1) = sub

\* str(n) / f'{n}' for an int
RECURSIVE NatToStr(_)
NatToStr(n) == IF n < 10 THEN Chr(Digits, n + 1) ELSE NatToStr(n \div 10) \o Chr(Digits, (n % 10) + 1)
IntToStr(n) == IF n < 0 THEN "-" \o NatToStr(-n) ELSE NatToStr(n)

Max(a, b) == IF a >= b THEN a ELSE b
Min(a, b) == IF a <= b THEN a ELSE b

(***************************************************************************)
(* generate_complete_dashboard.py: the templates of the ten chart groups   *)
(***************************************************************************)
LastUpdated == "2024-08-01T00:00:00.000Z"

\* AR Aging (ids 1-5)
aging_brackets == <<"1-30", "31-60", "61-90", "90+", "Current">>
aging_months == <<-11, -8, -5, -2, 0>>
aging_values == <<60000, 35000, 15000, 5000, 140000>>
aging_columns == <<"amount_30", "amount_60", "amount_90", "amount_over", "current_balance">>

ArAgingEntry(i) ==
    LET bracket == aging_brackets[i] IN
    [ id |-> i,
      chartGroup |-> "AR Aging",
      variableName |-> IF bracket # "Current" THEN "AR Aging Amount Due " \o bracket \o " Days"
                       ELSE "AR Aging Amount Due Current",
      dataPoint |-> bracket,
      serverName |-> "P21",
      tableName |-> "balances",
      productionSqlExpression |->
          "SELECT SUM(cumulative_balance) AS result FROM balances WHERE year_for_period = CAST(YEAR(DATEADD(month, "
          \o IntToStr(aging_months[i])
          \o ", GETDATE())) AS decimal(9,0)) AND period = CAST(MONTH(DATEADD(month, "
          \o IntToStr(aging_months[i])
          \o ", GETDATE())) AS decimal(9,0));",
      value |-> aging_values[i],
      calculationType |-> "Totalize receivables within the specified temporal bracket.",
      lastUpdated |-> LastUpdated,
      valueColumn |-> aging_columns[i],
      filterColumn |-> "age_bracket",
      filterValue |-> IF bracket # "Current" THEN bracket \o " Days" ELSE "Current" ]

\* f'-{11-month}': the offset of the Accounts and Daily Orders templates
MinusOffset(n) == "-" \o IntToStr(n)
\* f'{-11+month}': the offset of the DATEFROMPARTS templates
SignedOffset(month) == IntToStr(-11 + month)
\* a slip in the filter value: the month index instead of the offset
MonthFilterValueByIndex(month) == "current_month-" \o IntToStr(month)

\* f'current_month-{11-month}'
MonthFilterValue(month) == "current_month-" \o IntToStr(11 - month)
\* f'day-{6-day}'
DayFilterValue(day) == "day-" \o IntToStr(6 - day)

\* Accounts (ids 6-41): 3 variables x 12 months
account_vars == <<"payable", "receivable", "overdue">>

AccountsSql(var_name, month) ==
    IF var_name = "payable" THEN
        "SELECT SUM(total_amount) AS result FROM p21_view_soa_get_gl_daily_summaries WHERE account_type = 'Liability' AND year_for_period = YEAR(DATEADD(month, "
        \o MinusOffset(11 - month)
        \o ", GETDATE())) AND period = MONTH(DATEADD(month, "
        \o MinusOffset(11 - month)
        \o ", GETDATE()));"
    ELSE IF var_name = "receivable" THEN
        "SELECT SUM(b.cumulative_balance) AS result FROM balances b JOIN chart_of_accts a ON a.account_no = b.account_no WHERE (a.account_no LIKE '11%' OR a.account_type LIKE '%AR%') AND b.year_for_period = YEAR(DATEADD(month, "
        \o MinusOffset(11 - month)
        \o ", GETDATE())) AND b.period = MONTH(DATEADD(month, "
        \o MinusOffset(11 - month)
        \o ", GETDATE()));"
    ELSE
        "SELECT b.year_for_period, b.period, SUM(b.cumulative_balance) AS ar_ending_balance FROM balances b JOIN chart_of_accts a ON a.account_no = b.account_no WHERE (a.account_no LIKE '11%' OR a.account_type LIKE '%AR%') AND b.year_for_period = YEAR(DATEADD(month, "
        \o MinusOffset(11 - month)
        \o ", GETDATE())) AND b.period = MONTH(DATEADD(month, "
        \o MinusOffset(11 - month)
        \o ", GETDATE())) GROUP BY b.year_for_period, b.period;"

\* a slip in the id formula: the stride of the two-variable groups
AccountsEntryIdStride2(month, var_idx) == 6 + month * 2 + var_idx

\* entry_id = 6 + month * 3 + var_idx
AccountsEntryId(month, var_idx) == 6 + month * 3 + var_idx

AccountsEntry(month, var_idx) ==
    LET var_name == account_vars[var_idx + 1] IN
    [ id |-> AccountsEntryId(month, var_idx),
      chartGroup |-> "Accounts",
      variableName |-> "Accounts " \o Title(var_name),
      dataPoint |-> var_name,
      serverName |-> "P21",
      tableName |-> IF var_name = "payable" THEN "gl" ELSE "balances",
      productionSqlExpression |-> AccountsSql(var_name, month),
      value |-> IF var_name = "payable" THEN 1200 + month * 100
                ELSE IF var_name = "receivable" THEN 58000 + month * 1000
                ELSE Max(6000, 8500 - month * 100),
      calculationType |-> "Totalize " \o var_name \o " for the appropriate calendar month.",
      lastUpdated |-> LastUpdated,
      valueColumn |-> var_name,
      filterColumn |-> "month",
      filterValue |-> MonthFilterValue(month) ]

\* the month window shared by the DATEFROMPARTS templates:
\* col >= first day of month(now + off) AND col < first day of the month after
MonthWindow(col, off) ==
    col \o " >= DATEFROMPARTS(YEAR(DATEADD(month," \o off \o ",GETDATE())), MONTH(DATEADD(month,"
    \o off \o ",GETDATE())), 1) AND " \o col
    \o " < DATEADD(month, 1, DATEFROMPARTS(YEAR(DATEADD(month," \o off
    \o ",GETDATE())), MONTH(DATEADD(month," \o off \o ",GETDATE())), 1))"

\* the first day of month(now + off)
MonthStart(off) ==
    "DATEFROMPARTS(YEAR(DATEADD(month," \o off \o ",GETDATE())), MONTH(DATEADD(month,"
    \o off \o ",GETDATE())), 1)"

\* Web Orders (ids 42-65): 2 variables x 12 months
web_vars == <<"count", "amount">>

WebOrdersEntry(month, var_idx) ==
    LET var_name == web_vars[var_idx + 1] IN
    [ id |-> 42 + month * 2 + var_idx,
      chartGroup |-> "Web Orders",
      variableName |-> "Web Orders " \o Title(var_name),
      dataPoint |-> var_name,
      serverName |-> "P21",
      tableName |-> "oe_hdr",
      productionSqlExpression |->
          "SELECT " \o (IF var_name = "count" THEN "COUNT(*)" ELSE "SUM(total_amount)")
          \o " AS result FROM oe_hdr AS h WHERE "
          \o MonthWindow("h.order_date", SignedOffset(month))
          \o " AND ( LTRIM(RTRIM(COALESCE(h.web_shopper_id, N''))) <> N'' OR LTRIM(RTRIM(COALESCE(h.web_shopper_email,N''))) <> N'' OR LTRIM(RTRIM(COALESCE(h.web_reference_no, N''))) <> N'' );",
      value |-> IF var_name = "count" THEN 150 + month * 10 ELSE 12000 + month * 500,
      calculationType |-> (IF var_name = "count" THEN "Count" ELSE "Sum")
                          \o " web orders for the appropriate calendar month.",
      lastUpdated |-> LastUpdated,
      valueColumn |-> var_name,
      filterColumn |-> "month",
      filterValue |-> MonthFilterValue(month) ]

\* Inventory (ids 66-73)
inventory_categories == <<"Electronics", "Automotive", "Tools", "Hardware", "Office Supplies",
                          "Safety Equipment", "Industrial", "Miscellaneous">>
inventory_ids == <<"ELECTRONICS", "AUTOMOTIVE", "TOOLS", "HARDWARE", "OFFICE", "SAFETY",
                   "INDUSTRIAL", "MISC">>
inventory_values == <<250000, 180000, 95000, 120000, 45000, 75000, 320000, 65000>>

InventoryEntry(i) ==
    LET category == inventory_categories[i + 1] IN
    [ id |-> 66 + i,
      chartGroup |-> "Inventory",
      variableName |-> "Inventory Value " \o category,
      dataPoint |-> ReplaceChar(Lower(category), " ", "_"),
      serverName |-> "P21",
      tableName |-> "inventory_mast",
      productionSqlExpression |->
          "SELECT SUM(qty_on_hand * avg_cost) AS result FROM inventory_mast WHERE inv_mast_uid IN (SELECT inv_mast_uid FROM item WHERE item_class_id = '"
          \o inventory_ids[i + 1]
          \o "') AND date_created <= DATEADD(month, -11, GETDATE());",
      value |-> inventory_values[i + 1],
      calculationType |-> "Calculate inventory value by category for the appropriate calendar month.",
      lastUpdated |-> LastUpdated,
      valueColumn |-> "value",
      filterColumn |-> "category",
      filterValue |-> category ]

\* POR Overview (ids 74-97): 2 variables x 12 months
por_vars == <<"orders", "revenue">>

PorOverviewEntry(month, var_idx) ==
    LET var_name == por_vars[var_idx + 1] IN
    [ id |-> 74 + month * 2 + var_idx,
      chartGroup |-> "POR Overview",
      variableName |-> "POR " \o Title(var_name),
      dataPoint |-> var_name,
      serverName |-> "P21",
      tableName |-> IF var_name = "orders" THEN "oe_hdr" ELSE "invoice_hdr",
      productionSqlExpression |->
          "SELECT " \o (IF var_name = "orders" THEN "COUNT(*)" ELSE "SUM(total_amount)")
          \o " AS result FROM " \o (IF var_name = "orders" THEN "oe_hdr" ELSE "invoice_hdr")
          \o " WHERE "
          \o MonthWindow(IF var_name = "orders" THEN "order_date" ELSE "invoice_date",
                         SignedOffset(month))
          \o ";",
      value |-> IF var_name = "orders" THEN 450 + month * 20 ELSE 85000 + month * 2000,
      calculationType |-> (IF var_name = "orders" THEN "Count" ELSE "Sum")
                          \o " POR data for the appropriate calendar month.",
      lastUpdated |-> LastUpdated,
      valueColumn |-> var_name,
      filterColumn |-> "month",
      filterValue |-> MonthFilterValue(month) ]

\* Daily Orders (ids 98-104): 7 days
DailyOrdersEntry(day) ==
    [ id |-> 98 + day,
      chartGroup |-> "Daily Orders",
      variableName |-> "Daily Orders Day " \o IntToStr(day + 1),
      dataPoint |-> "day_" \o IntToStr(day + 1),
      serverName |-> "P21",
      tableName |-> "oe_hdr",
      productionSqlExpression |->
          "SELECT COUNT(*) AS result FROM oe_hdr WHERE order_date = DATEADD(day, "
          \o MinusOffset(6 - day)
          \o ", CAST(GETDATE() AS DATE));",
      value |-> 45 + day * 5,
      calculationType |-> "Count daily orders for specific day.",
      lastUpdated |-> LastUpdated,
      valueColumn |-> "orders",
      filterColumn |-> "day",
      filterValue |-> DayFilterValue(day) ]

\* Historical Data (ids 105-140): 3 variables x 12 months
hist_vars == <<"sales", "orders", "customers">>

HistoricalEntry(month, var_idx) ==
    LET var_name == hist_vars[var_idx + 1] IN
    [ id |-> 105 + month * 3 + var_idx,
      chartGroup |-> "Historical Data",
      variableName |-> "Historical " \o Title(var_name),
      dataPoint |-> var_name,
      serverName |-> "P21",
      tableName |-> IF var_name = "sales" THEN "invoice_hdr"
                    ELSE IF var_name = "orders" THEN "oe_hdr" ELSE "customer",
      productionSqlExpression |->
          IF var_name = "sales" THEN
              "SELECT SUM(total_amount) AS result FROM invoice_hdr WHERE "
              \o MonthWindow("invoice_date", SignedOffset(month)) \o ";"
          ELSE IF var_name = "orders" THEN
              "SELECT COUNT(*) AS result FROM oe_hdr WHERE "
              \o MonthWindow("order_date", SignedOffset(month)) \o ";"
          ELSE
              "SELECT COUNT(DISTINCT customer_id) AS result FROM oe_hdr WHERE "
              \o MonthWindow("order_date", SignedOffset(month)) \o ";",
      value |-> IF var_name = "sales" THEN 75000 + month * 3000
                ELSE IF var_name = "orders" THEN 850 + month * 50 ELSE 125 + month * 8,
      calculationType |-> "Historical " \o var_name \o " data for the appropriate calendar month.",
      lastUpdated |-> LastUpdated,
      valueColumn |-> var_name,
      filterColumn |-> "month",
      filterValue |-> MonthFilterValue(month) ]

\* Customer Metrics (ids 141-164): 2 variables x 12 months
customer_vars == <<"new_customers", "retained_customers">>

CustomerMetricsEntry(month, var_idx) ==
    LET var_name == customer_vars[var_idx + 1] IN
    [ id |-> 141 + month * 2 + var_idx,
      chartGroup |-> "Customer Metrics",
      variableName |-> "Customer " \o Title(ReplaceChar(var_name, "_", " ")),
      dataPoint |-> var_name,
      serverName |-> "P21",
      tableName |-> "customer",
      productionSqlExpression |->
          IF var_name = "new_customers" THEN
              "SELECT COUNT(*) AS result FROM customer WHERE "
              \o MonthWindow("date_created", SignedOffset(month)) \o ";"
          ELSE
              "SELECT COUNT(DISTINCT c.customer_id) AS result FROM customer c JOIN oe_hdr o ON c.customer_id = o.customer_id WHERE "
              \o MonthWindow("o.order_date", SignedOffset(month))
              \o " AND c.date_created < " \o MonthStart(SignedOffset(month)) \o ";",
      value |-> IF var_name = "new_customers" THEN 25 + month * 2 ELSE 95 + month * 5,
      calculationType |-> "Customer metrics for the appropriate calendar month.",
      lastUpdated |-> LastUpdated,
      valueColumn |-> var_name,
      filterColumn |-> "month",
      filterValue |-> MonthFilterValue(month) ]

\* Key Metrics (ids 165-171): (var_name, data_point, sql_expr, value)
key_metrics == <<
    <<"Total Sales YTD", "Total Orders", "SELECT COUNT(order_no) AS result FROM oe_hdr;", 12540>>,
    <<"Total Orders YTD", "Open Orders (/day)", "SELECT COUNT(order_no) AS result FROM oe_hdr WHERE status = 'open' AND CAST(order_date AS DATE) = CAST(GETDATE() AS DATE);", 85>>,
    <<"Average Order Value", "All Open Orders", "SELECT COUNT(order_no) AS result FROM oe_hdr WHERE status = 'open';", 1250>>,
    <<"Gross Profit Margin", "Daily Revenue", "SELECT SUM(total_amount) AS result FROM invoice_hdr WHERE CAST(invoice_date AS DATE) = CAST(GETDATE() AS DATE);", 415230>>,
    <<"Customer Acquisition Rate", "Open Invoices", "SELECT SUM(total_amount) AS result FROM invoice_hdr WHERE status = 'open';", 2350000>>,
    <<"Inventory Turnover", "Orders Backloged", "SELECT COUNT(DISTINCT order_no) AS result FROM oe_line WHERE status = 'backordered';", 310>>,
    <<"Customer Retention Rate", "Total Sales (Monthly)", "SELECT SUM(total_amount) AS result FROM invoice_hdr WHERE invoice_date >= DATEADD(month, DATEDIFF(month, 0, GETDATE()), 0) AND invoice_date < DATEADD(month, DATEDIFF(month, 0, GETDATE()) + 1, 0);", 8345000>> >>

\* these records carry no filterColumn and no filterValue
KeyMetricsEntry(i) ==
    LET sql_expr == key_metrics[i + 1][3] IN
    [ id |-> 165 + i,
      chartGroup |-> "Key Metrics",
      variableName |-> key_metrics[i + 1][1],
      dataPoint |-> key_metrics[i + 1][2],
      serverName |-> "P21",
      tableName |-> IF Contains(Lower(sql_expr), "order") THEN "oe_hdr" ELSE "invoice_hdr",
      productionSqlExpression |-> sql_expr,
      value |-> key_metrics[i + 1][4],
      calculationType |-> "Key business metrics calculation.",
      lastUpdated |-> LastUpdated,
      valueColumn |-> IF Contains(sql_expr, "order_no") THEN "order_no" ELSE "total_amount" ]

\* Site Distribution (ids 172-174)
site_locations == <<"Columbus", "Addison", "City">>

SiteDistributionEntry(i) ==
    LET location == site_locations[i + 1] IN
    [ id |-> 172 + i,
      chartGroup |-> "Site Distribution",
      variableName |-> "Site Distribution " \o location,
      dataPoint |-> location,
      serverName |-> "P21",
      tableName |-> "branch",
      productionSqlExpression |->
          "SELECT COUNT(*) as result FROM branch WHERE location_name = '" \o location \o "';",
      value |-> 1,
      calculationType |-> "Totalize revenue from the specified geographical locus.",
      lastUpdated |-> LastUpdated,
      valueColumn |-> "sales",
      filterColumn |-> "site_name",
      filterValue |-> location ]

(***************************************************************************)
(* generate_complete_dashboard.py: the run                                 *)
(*                                                                         *)
(* The file is [kind, items]: kind "absent", "invalid" (not JSON) or       *)
(* "json", and then items is the JSON array it holds, a sequence of        *)
(* objects.  existing_dict is a function from ids to items.                *)
(***************************************************************************)
EmptyDict == [k \in {} |-> 0]

\* a slip in the key: the position in the list instead of item['id']
ExistingDictByPosition(f) ==
    IF f.kind # "json" THEN EmptyDict
    ELSE IF \E i \in 1..Len(f.items) : "id" \notin DOMAIN f.items[i] THEN EmptyDict
    ELSE [ k \in 1..Len(f.items) |-> f.items[k] ]

\* {item['id']: item for item in existing_data}: a later item replaces an earlier
\* one with the same id; any failure (no file, no JSON, an item without 'id')
\* leaves existing_dict = {}
ExistingDict(f) ==
    LET existing_data == f.items IN
    IF f.kind # "json" THEN EmptyDict
    ELSE IF \E i \in 1..Len(existing_data) : "id" \notin DOMAIN existing_data[i] THEN EmptyDict
    ELSE [ k \in {existing_data[i].id : i \in 1..Len(existing_data)} |->
             existing_data[CHOOSE i \in 1..Len(existing_data) :
                              /\ existing_data[i].id = k
                              /\ \A j \in (i + 1)..Len(existing_data) : existing_data[j].id # k] ]

\* a slip in the loops: the record is built whatever existing_dict holds
KeepOrBuildAlwaysBuilt(existing_dict, entry_id, built) == built

\* if entry_id in existing_dict: data.append(existing_dict[entry_id]) else: data.append({...})
KeepOrBuild(existing_dict, entry_id, built) ==
    IF entry_id \in DOMAIN existing_dict THEN existing_dict[entry_id] ELSE built

\* data, in the order the ten loops append to it
GenerateData(existing_dict) ==
    [ i \in 1..5 |-> KeepOrBuild(existing_dict, i, ArAgingEntry(i)) ]
    \o [ p \in 1..36 |-> LET month == (p - 1) \div 3
                             var_idx == (p - 1) % 3
                         IN  KeepOrBuild(existing_dict, AccountsEntryId(month, var_idx),
                                         AccountsEntry(month, var_idx)) ]
    \o [ p \in 1..24 |-> LET month == (p - 1) \div 2
                             var_idx == (p - 1) % 2
                         IN  KeepOrBuild(existing_dict, 42 + month * 2 + var_idx,
                                         WebOrdersEntry(month, var_idx)) ]
    \o [ p \in 1..8 |-> KeepOrBuild(existing_dict, 66 + (p - 1), InventoryEntry(p - 1)) ]
    \o [ p \in 1..24 |-> PorOverviewEntry((p - 1) \div 2, (p - 1) % 2) ]
    \o [ p \in 1..7 |-> DailyOrdersEntry(p - 1) ]
    \o [ p \in 1..36 |-> HistoricalEntry((p - 1) \div 3, (p - 1) % 3) ]
    \o [ p \in 1..24 |-> CustomerMetricsEntry((p - 1) \div 2, (p - 1) % 2) ]
    \o [ p \in 1..7 |-> KeepOrBuild(existing_dict, 165 + (p - 1), KeyMetricsEntry(p - 1)) ]
    \o [ p \in 1..3 |-> KeepOrBuild(existing_dict, 172 + (p - 1), SiteDistributionEntry(p - 1)) ]

\* data.sort(key=lambda x: x['id']): a stable sort on an integer key, computed as
\* the records with the least id in their order in data, then those with the next
RECURSIVE SortRange(_, _, _)
SortRange(data, lo, hi) ==
    IF lo > hi THEN <<>>
    ELSE IF lo = hi THEN LET HasKey(x) == x.id = lo IN SelectSeq(data, HasKey)
    ELSE SortRange(data, lo, (lo + hi) \div 2) \o SortRange(data, (lo + hi) \div 2 + 1, hi)

SortById(data) ==
    LET keys == { data[i].id : i \in 1..Len(data) } IN
    IF keys = {} THEN <<>>
    ELSE SortRange(data, CHOOSE k \in keys : \A m \in keys : k <= m,
                         CHOOSE k \in keys : \A m \in keys : k >= m)

\* json.dump(data, f): what the run leaves in the file
GeneratorOutput(f) == [kind |-> "json", items |-> SortById(GenerateData(ExistingDict(f)))]

\* the ids the run built from its templates instead of taking from existing_dict
PreservedIds == (1..73) \cup (165..174)
BuiltIds(f) == (1..174) \ (PreservedIds \cap DOMAIN ExistingDict(f))

\* structure_check: (group, start, end, expected)
structure_check == <<
    <<"AR Aging", 1, 5, 5>>,
    <<"Accounts", 6, 41, 36>>,
    <<"Web Orders", 42, 65, 24>>,
    <<"Inventory", 66, 73, 8>>,
    <<"POR Overview", 74, 97, 24>>,
    <<"Daily Orders", 98, 104, 7>>,
    <<"Historical Data", 105, 140, 36>>,
    <<"Customer Metrics", 141, 164, 24>>,
    <<"Key Metrics", 165, 171, 7>>,
    <<"Site Distribution", 172, 174, 3>> >>

(***************************************************************************)
(* The catalogs hooks/dashboard-data.json may hold before the first run    *)
(***************************************************************************)
MaxExisting == 2
MaxRuns == 2

\* a hand-edited record
Edited(id, v) ==
    [ id |-> id,
      chartGroup |-> "Custom",
      variableName |-> "Hand edited",
      dataPoint |-> "edited",
      serverName |-> "P21",
      tableName |-> "oe_hdr",
      productionSqlExpression |-> "SELECT " \o IntToStr(v) \o " AS result;",
      value |-> v,
      calculationType |-> "Edited by hand.",
      lastUpdated |-> "2025-01-01T00:00:00.000Z",
      valueColumn |-> "result",
      filterColumn |-> "month",
      filterValue |-> "current_month-3" ]

ExistingItems ==
    { Edited(1, 7), Edited(1, 8), Edited(7, 7), Edited(74, 7), Edited(165, 7), Edited(175, 7),
      [ chartGroup |-> "Custom", value |-> 7 ] }

RECURSIVE SeqsUpTo(_, _)
SeqsUpTo(S, n) ==
    IF n = 0 THEN { <<>> }
    ELSE SeqsUpTo(S, n - 1) \cup { Append(q, x) : q \in { t \in SeqsUpTo(S, n - 1) : Len(t) = n - 1 }, x \in S }

InitialFiles ==
    { [kind |-> "absent", items |-> <<>>], [kind |-> "invalid", items |-> <<>>] }
    \cup { [kind |-> "json", items |-> q] : q \in SeqsUpTo(ExistingItems, MaxExisting) }

NoFile == [kind |-> "none", items |-> <<>>]

WrapperIdle ==
    /\ variant = "none"
    /\ dbUp = TRUE
    /\ dbEpoch = 0
    /\ srv = "none"
    /\ req = "none"
    /\ resp = "none"
    /\ trace = "none"
    /\ pc = "none"

InitGen ==
    /\ file \in InitialFiles
    /\ prev = NoFile
    /\ created = {}
    /\ runs = 0
    /\ WrapperIdle
    /\ ExtraIdle

\* python generate_complete_dashboard.py
RunGenerator ==
    /\ runs < MaxRuns
    /\ file' = GeneratorOutput(file)
    /\ prev' = file
    /\ created' = BuiltIds(file)
    /\ runs' = runs + 1
    /\ UNCHANGED <<srvVars, extraVars>>

NextGen == RunGenerator

SpecGen == InitGen /\ [][NextGen]_vars

(***************************************************************************)
(* Reading a catalog back: the offsets a record's texts carry              *)
(***************************************************************************)
IsDigits(s) == s # "" /\ \A i \in 1..Len(s) : IndexIn(Digits, Chr(s, i)) > 0

RECURSIVE NatFromStr(_)
NatFromStr(s) ==
    IF s = "" THEN 0
    ELSE 10 * NatFromStr(SubSeq(s, 1, Len(s) - 1)) + (IndexIn(Digits, Chr(s, Len(s))) - 1)

IsIntText(s) == IsDigits(s) \/ (StartsWith(s, "-") /\ IsDigits(Tail(s)))
IntFromStr(s) == IF StartsWith(s, "-") THEN 0 - NatFromStr(Tail(s)) ELSE NatFromStr(s)

\* the position of the first c at or after position p of s (0: none)
FindFrom(s, c, p) ==
    IF \E j \in p..Len(s) : Chr(s, j) = c
    THEN CHOOSE j \in p..Len(s) : Chr(s, j) = c /\ \A h \in p..(j - 1) : Chr(s, h) # c
    ELSE 0

\* the k of a filterValue 'current_month-k' or 'day-k' (-1: the text has another shape)
FilterOffset(prefix, filterValue) ==
    IF StartsWith(filterValue, prefix) /\ IsDigits(SubSeq(filterValue, Len(prefix) + 1, Len(filterValue)))
    THEN NatFromStr(SubSeq(filterValue, Len(prefix) + 1, Len(filterValue)))
    ELSE -1

\* the calls DATEADD(unit, N, date) of a statement: where each starts, and its
\* unit, its N and the text from its third argument on
DateAddCalls(sql) == { i \in 1..(Len(sql) - 7) : SubSeq(sql, i, i + 7) = "DATEADD(" }

DateAddArguments(sql) ==
    { LET c1 == FindFrom(sql, ",", i + 8)
          c2 == IF c1 = 0 THEN 0 ELSE FindFrom(sql, ",", c1 + 1)
      IN  IF c2 = 0 THEN <<"", "", "">>
          ELSE << Strip(SubSeq(sql, i + 8, c1 - 1)),
                  Strip(SubSeq(sql, c1 + 1, c2 - 1)),
                  LStrip(SubSeq(sql, c2 + 1, Len(sql))) >>
      : i \in DateAddCalls(sql) }

\* every DATEADD call of the statement has this unit and a whole number as N
DateAddsIn(sql, unit) == \A b \in DateAddArguments(sql) : b[1] = unit /\ IsIntText(b[2])

\* the offsets N of all the calls DATEADD(unit, N, date) of a statement
DateAddOffsets(sql, unit) ==
    { IntFromStr(b[2]) : b \in { c \in DateAddArguments(sql) : c[1] = unit /\ IsIntText(c[2]) } }

\* the offsets N of the calls DATEADD(unit, N, <now>), where <now> is GETDATE()
\* or CAST(GETDATE() AS DATE): the offsets from the current date
DateAddNowOffsets(sql, unit) ==
    { IntFromStr(b[2]) : b \in
        { c \in DateAddArguments(sql) :
            /\ c[1] = unit
            /\ IsIntText(c[2])
            /\ (StartsWith(c[3], "GETDATE()") \/ StartsWith(c[3], "CAST(GETDATE() AS DATE)")) } }

\* the offsets N of the calls DATEADD(unit, N, DATEFROMPARTS(...)): the width of
\* the window that starts at the first day of a month
DateAddWindowOffsets(sql, unit) ==
    { IntFromStr(b[2]) : b \in
        { c \in DateAddArguments(sql) :
            c[1] = unit /\ IsIntText(c[2]) /\ StartsWith(c[3], "DATEFROMPARTS(") } }

\* the groups whose statements select one calendar month with
\* date >= first day AND date < DATEADD(month, 1, first day)
WindowGroups == {"Web Orders", "POR Overview", "Historical Data", "Customer Metrics"}

\* the month-indexed groups: (group, first id, variables per month)
MonthGroups == << <<"Accounts", 6, 3>>, <<"Web Orders", 42, 2>>, <<"POR Overview", 74, 2>>,
                  <<"Historical Data", 105, 3>>, <<"Customer Metrics", 141, 2>> >>

RecordAt(f, id) == f.items[CHOOSE i \in 1..Len(f.items) : f.items[i].id = id]

(***************************************************************************)
(* Claims about the generator (checked under SpecGen)                      *)
(***************************************************************************)

\* C1: the generator is a fixed point on its own output: whatever the file held at
\* first, a run on the file a run has written writes the same ordered records with
\* the same field values.
C1_Idempotent == runs >= 2 => file = prev

\* C1 witness: a second run has happened on a catalog that keeps a hand-edited record.
C1_Witness ==
    /\ runs >= 2
    /\ file.kind = "json"
    /\ \E i \in 1..Len(file.items) : file.items[i].chartGroup = "Custom"

\* no record of the file the run read overrides a preserved id
NoOverrides(f) == DOMAIN ExistingDict(f) \cap PreservedIds = {}

\* C2: with no existing overrides the output holds exactly 174 records with ids
\* 1..174 in ascending order, and every chart group of structure_check occupies
\* exactly its declared id range with its declared count.
C2_RangesPerGroup ==
    (runs >= 1 /\ NoOverrides(prev)) =>
        /\ Len(file.items) = 174
        /\ \A i \in 1..174 : file.items[i].id = i
        /\ \A g \in 1..Len(structure_check) :
              LET members == { i \in 1..Len(file.items) :
                                  file.items[i].chartGroup = structure_check[g][1] }
              IN  /\ members = structure_check[g][2]..structure_check[g][3]
                  /\ Cardinality(members) = structure_check[g][4]
        /\ \A i \in 1..174 : \E g \in 1..Len(structure_check) :
              file.items[i].chartGroup = structure_check[g][1]

\* C2 witness: a run on a missing or unreadable file, or on one without overrides.
C2_Witness == runs = 1 /\ NoOverrides(prev) /\ prev.kind = "json" /\ Len(prev.items) > 0

\* C3 as stated: every record the run built in a time-indexed group carries in
\* its SQL, as every DATEADD offset, -k for the k its filterValue encodes, where
\* k = 11 - monthIndex (6 - dayIndex) and
\* id = groupStart + monthIndex * variableCount + variableIndex.
C3_EveryOffsetMatchesFilter ==
    runs >= 1 =>
        /\ \A g \in 1..Len(MonthGroups) : \A m \in 0..11 : \A v \in 0..(MonthGroups[g][3] - 1) :
              LET id == MonthGroups[g][2] + m * MonthGroups[g][3] + v
                  r == RecordAt(file, id)
              IN  id \in created =>
                    /\ r.chartGroup = MonthGroups[g][1]
                    /\ FilterOffset("current_month-", r.filterValue) = 11 - m
                    /\ DateAddsIn(r.productionSqlExpression, "month")
                    /\ DateAddOffsets(r.productionSqlExpression, "month") = { -(11 - m) }
        /\ \A d \in 0..6 :
              LET r == RecordAt(file, 98 + d)
              IN  (98 + d) \in created =>
                    /\ r.chartGroup = "Daily Orders"
                    /\ FilterOffset("day-", r.filterValue) = 6 - d
                    /\ DateAddsIn(r.productionSqlExpression, "day")
                    /\ DateAddOffsets(r.productionSqlExpression, "day") = { -(6 - d) }

\* C3, amended: in every record the run built in a time-indexed group, every
\* DATEADD is one of two kinds. Those taken from the current date all carry the
\* offset -k for the k the filterValue encodes (k = 11 - monthIndex, 6 - dayIndex,
\* id = groupStart + monthIndex * variableCount + variableIndex), and there is at
\* least one. The others are the DATEADD(month, 1, DATEFROMPARTS(...)) that closes
\* the one-month window of a Web Orders, POR Overview, Historical Data or
\* Customer Metrics statement, whose offset is the constant 1; Accounts and Daily
\* Orders statements have none of these.
C3_OffsetsMatchFilter ==
    runs >= 1 =>
        /\ \A g \in 1..Len(MonthGroups) : \A m \in 0..11 : \A v \in 0..(MonthGroups[g][3] - 1) :
              LET id == MonthGroups[g][2] + m * MonthGroups[g][3] + v
                  r == RecordAt(file, id)
                  sql == r.productionSqlExpression
              IN  id \in created =>
                    /\ r.chartGroup = MonthGroups[g][1]
                    /\ FilterOffset("current_month-", r.filterValue) = 11 - m
                    /\ DateAddsIn(sql, "month")
                    /\ DateAddNowOffsets(sql, "month") = { -(11 - m) }
                    /\ DateAddWindowOffsets(sql, "month")
                          = IF r.chartGroup \in WindowGroups THEN {1} ELSE {}
                    /\ DateAddOffsets(sql, "month")
                          = DateAddNowOffsets(sql, "month") \cup DateAddWindowOffsets(sql, "month")
                    /\ \A b \in DateAddArguments(sql) :
                          \/ StartsWith(b[3], "GETDATE()")
                          \/ StartsWith(b[3], "DATEFROMPARTS(")
        /\ \A d \in 0..6 :
              LET r == RecordAt(file, 98 + d)
                  sql == r.productionSqlExpression
              IN  (98 + d) \in created =>
                    /\ r.chartGroup = "Daily Orders"
                    /\ FilterOffset("day-", r.filterValue) = 6 - d
                    /\ DateAddsIn(sql, "day")
                    /\ DateAddOffsets(sql, "day") = { -(6 - d) }
                    /\ \A b \in DateAddArguments(sql) : StartsWith(b[3], "CAST(GETDATE() AS DATE)")

\* C3 witness: a run built the Accounts record of the oldest month (id 6, k = 11),
\* the Web Orders record of the oldest month (id 42), whose statement holds both
\* kinds of DATEADD, and the Daily Orders record of today (id 104, k = 0).
C3_Witness ==
    /\ runs >= 1
    /\ {6, 42, 104} \subseteq created
    /\ RecordAt(file, 6).filterValue = "current_month-11"
    /\ DateAddOffsets(RecordAt(file, 6).productionSqlExpression, "month") = {-11}
    /\ RecordAt(file, 42).filterValue = "current_month-11"
    /\ DateAddOffsets(RecordAt(file, 42).productionSqlExpression, "month") = {-11, 1}
    /\ DateAddWindowOffsets(RecordAt(file, 42).productionSqlExpression, "month") = {1}
    /\ DateAddOffsets(RecordAt(file, 104).productionSqlExpression, "day") = {0}

(***************************************************************************)
(* The wrapper servers: what a call of execute_sql is given                *)
(*                                                                         *)
(* An optional Python value is a sequence of length 0 (None) or 1.         *)
(* A connection is the number of the outage it was opened after: it is     *)
(* live while the database is up and has had no outage since.              *)
(***************************************************************************)
Variants == {"p21_http", "p21_mcp", "epicore", "debug", "por_mcp", "por_http"}

MaxRows == 3
MaxLimit == 2
MaxOutages == 1

None == <<>>
Some(x) == <<x>>

\* the texts callers send, by what they are to the database: queries with a result
\* set of any size, queries with a result set of one row, statements with no result
\* set, and texts the database rejects
TableQueries ==
    { "select name from customer",
      "SELECT * FROM x; DROP TABLE y",
      "SELECT date_created FROM customer",
      "SELECT qty FROM MCP_Sandboxed_Inv" }

ScalarQueries ==
    { "SELECT 1",
      "  SELECT COUNT(*) FROM oe_hdr\n",
      "WITH c AS (SELECT 1 AS n) SELECT n FROM c" }

Commands == {"DROP TABLE x", "update oe_hdr set status = 1"}

Rejected == {"", "SELECT name FROM customer LIMIT 5"}

Queries == TableQueries \cup ScalarQueries \cup Commands \cup Rejected

\* the values a driver hands back in a row, by Python type
CellTypes == {"int", "decimal", "none", "date", "str"}

\* what the database does with a statement it is given on a live connection:
\* cursor.execute raises (exec_error), the fetch raises (fetch_error, which is also
\* what fetching does after a statement that returns no result set), or there is a
\* result set of n rows of one column
Failing(kind) == [kind |-> kind, n |-> 0, cell |-> "int"]

Rows(n, cell) == [kind |-> "rows", n |-> n, cell |-> cell]

Outcomes ==
    {Failing("exec_error"), Failing("fetch_error")}
    \cup {Rows(n, "int") : n \in 0..MaxRows}
    \cup {Rows(1, t) : t \in CellTypes}

\* the arguments object of an execute_sql call: has_sql_query and has_limit are
\* whether the object has the key, and a key that is there can hold null
Arguments ==
    [sql_query : {None} \cup {Some(q) : q \in Queries},
     has_sql_query : {TRUE},
     has_limit : {TRUE},
     limit : {None} \cup {Some(n) : n \in 0..MaxLimit}]
    \cup [sql_query : {None} \cup {Some(q) : q \in Queries},
          has_sql_query : {TRUE},
          has_limit : {FALSE},
          limit : {None}]
    \cup [sql_query : {None},
          has_sql_query : {FALSE},
          has_limit : {TRUE, FALSE},
          limit : {None}]

\* the modules whose call_tool reads request.arguments["sql_query"] and
\* request.arguments["table_name"]
SubscriptVariants == {"epicore", "por_mcp"}

\* arguments.get("sql_query", "") of p21_mcp_server, arguments.get('sql_query')
\* of the HTTP handlers, request.arguments["sql_query"] where the key is there
SqlArgument(v, arguments) ==
    IF v = "p21_mcp" /\ ~arguments.has_sql_query THEN Some("") ELSE arguments.sql_query

DefaultLimit(v) == IF v = "por_http" THEN 100 ELSE 1000

\* arguments.get('limit', default)
LimitArgument(v, arguments) ==
    IF arguments.has_limit THEN arguments.limit ELSE Some(DefaultLimit(v))

\* the outcomes the database can have for the text of a call
OutcomesFor(sql_query) ==
    IF sql_query = None THEN {Failing("exec_error")}
    ELSE IF sql_query[1] \in TableQueries THEN Outcomes
    ELSE IF sql_query[1] \in ScalarQueries
    THEN {Failing("exec_error"), Failing("fetch_error"), Rows(1, "int")}
    ELSE IF sql_query[1] \in Commands THEN {Failing("exec_error"), Failing("fetch_error")}
    ELSE {Failing("exec_error")}

Truthy(limit) == limit # None /\ limit[1] # 0

Live(conn) == dbUp /\ conn = dbEpoch

ResultRows(outcome) == [i \in 1..outcome.n |-> [t |-> outcome.cell, v |-> i]]

(***************************************************************************)
(* Validation of the statement text                                        *)
(***************************************************************************)
SqlUpper(sql_query) == StripChars(Upper(sql_query))

\* a slip in the check: SELECT anywhere in the text instead of at its start
IsSelectAnywhere(sql_upper) == Contains(sql_upper, Chars("SELECT"))

\* sql_upper.startswith('SELECT')
IsSelect(sql_upper) == StartsWith(sql_upper, Chars("SELECT"))

\* a slip in the list: CREATE left out
dangerous_keywords_short == <<"DROP", "DELETE", "TRUNCATE", "INSERT", "UPDATE", "ALTER">>

dangerous_keywords == <<"DROP", "DELETE", "TRUNCATE", "INSERT", "UPDATE", "ALTER", "CREATE">>

\* for keyword in dangerous_keywords: if keyword in sql_upper: return ...
\* the first keyword of the list the text contains, "" when it has none
FirstDangerous(sql_upper) ==
    LET hits == {i \in 1..Len(dangerous_keywords) :
                    Contains(sql_upper, Chars(dangerous_keywords[i]))}
    IN  IF hits = {} THEN ""
        ELSE dangerous_keywords[CHOOSE i \in hits : \A j \in hits : i <= j]

IsSandboxed(sql_query) == Contains(Lower(sql_query), "mcp_sandboxed_inv")

HasDenylist(v) == v \in {"p21_http", "p21_mcp", "epicore"}
HasSandbox(v) == v \in {"p21_http", "epicore"}

SelectOnlyMessage(v) ==
    IF v = "debug" THEN "Only SELECT statements are allowed"
    ELSE IF v = "por_mcp" THEN "Only SELECT statements are supported for POR database"
    ELSE "Only SELECT statements are allowed for security reasons"

\* the message of the validation return the statement runs into, "" when it passes
ValidationError(v, sql_query) ==
    LET sql_upper == SqlUpper(sql_query)
    IN  IF v = "por_http" THEN ""
        ELSE IF ~IsSelect(sql_upper) THEN SelectOnlyMessage(v)
        ELSE IF HasDenylist(v) /\ FirstDangerous(sql_upper) # ""
             THEN "SQL contains potentially dangerous keyword: " \o FirstDangerous(sql_upper)
        ELSE IF HasSandbox(v) /\ IsSandboxed(sql_query)
             THEN "Connection to MCP Sandbox failed: Network timeout."
        ELSE ""

(***************************************************************************)
(* Connections                                                             *)
(*                                                                         *)
(* The server object is [connection_string, is_connected, pool, stored]:   *)
(* whether a connection string is set, the is_connected flag, the list     *)
(* _connection_pool and the optional connection _connection.  A step that  *)
(* can raise yields the name of the exception in raised, "" when it does   *)
(* not raise.                                                              *)
(***************************************************************************)
max_pool_size == 3

Constructed == [connection_string |-> FALSE, is_connected |-> FALSE, pool |-> <<>>, stored |-> None]

\* the object once main() has set up the connection and begun to serve
Started(v) ==
    [connection_string |-> TRUE,
     is_connected |-> v \in {"p21_mcp", "debug"},
     pool |-> <<>>,
     stored |-> IF v \in {"epicore", "por_http"} THEN Some(0) ELSE None]

\* pyodbc.connect(self.connection_string)
ConnectError(s) ==
    IF ~s.connection_string THEN "TypeError"
    ELSE IF ~dbUp THEN "pyodbc.Error"
    ELSE ""

\* p21_mcp_server / debug_server: connect()
Connect(s) ==
    IF dbUp THEN [raised |-> "", srv |-> [s EXCEPT !.connection_string = TRUE, !.is_connected = TRUE]]
    ELSE [raised |-> "pyodbc.Error",
          srv |-> [s EXCEPT !.connection_string = TRUE, !.is_connected = FALSE]]

\* p21_mcp_server / debug_server: get_connection()
PooledGetConnection(s) ==
    LET c == IF ~s.is_connected \/ ~s.connection_string THEN Connect(s)
             ELSE [raised |-> "", srv |-> s]
        s1 == c.srv
    IN  IF c.raised # "" THEN [raised |-> c.raised, conn |-> 0, srv |-> s1, executed |-> <<>>]
        ELSE IF s1.pool # <<>>
        THEN [raised |-> "", conn |-> s1.pool[Len(s1.pool)],
              srv |-> [s1 EXCEPT !.pool = SubSeq(s1.pool, 1, Len(s1.pool) - 1)],
              executed |-> <<>>]
        ELSE [raised |-> ConnectError(s1), conn |-> dbEpoch, srv |-> s1, executed |-> <<>>]

\* a slip in close_connection: the connection is stored whatever the pool holds
CloseConnectionUnbounded(s, conn) == [s EXCEPT !.pool = Append(s.pool, conn)]

\* p21_mcp_server / debug_server / p21_http_server: close_connection(conn)
CloseConnection(s, conn) ==
    IF Len(s.pool) < max_pool_size THEN [s EXCEPT !.pool = Append(s.pool, conn)] ELSE s

\* close_connection(conn): the else branch, conn.close()
ConnectionClosed(s, conn) == ~(Len(s.pool) < max_pool_size)

\* p21_http_server: get_connection(), a fresh connection for every call
PlainGetConnection(s) ==
    [raised |-> IF dbUp THEN "" ELSE "pyodbc.Error",
     conn |-> dbEpoch,
     srv |-> [s EXCEPT !.connection_string = TRUE],
     executed |-> <<>>]

\* a slip in the probe: the kept connection is handed out untested
StoredGetConnectionUnprobed(s) ==
    IF s.stored = None
    THEN [raised |-> ConnectError(s), conn |-> dbEpoch,
          srv |-> IF ConnectError(s) = "" THEN [s EXCEPT !.stored = Some(dbEpoch)] ELSE s,
          executed |-> <<>>]
    ELSE [raised |-> "", conn |-> s.stored[1], srv |-> s, executed |-> <<"SELECT 1">>]

\* epicore_p21_mcp / por_http_server: get_connection() on the one kept connection
StoredGetConnection(s) ==
    IF s.stored = None
    THEN [raised |-> ConnectError(s), conn |-> dbEpoch,
          srv |-> IF ConnectError(s) = "" THEN [s EXCEPT !.stored = Some(dbEpoch)] ELSE s,
          executed |-> <<>>]
    ELSE IF Live(s.stored[1])
    THEN [raised |-> "", conn |-> s.stored[1], srv |-> s, executed |-> <<"SELECT 1">>]
    ELSE [raised |-> ConnectError(s), conn |-> dbEpoch,
          srv |-> IF ConnectError(s) = "" THEN [s EXCEPT !.stored = Some(dbEpoch)] ELSE s,
          executed |-> <<"SELECT 1">>]

\* por_mcp: get_db()
GetDb(s) ==
    [raised |-> IF s.connection_string /\ dbUp THEN "" ELSE "pyodbc.Error",
     conn |-> dbEpoch, srv |-> s, executed |-> <<>>]

(***************************************************************************)
(* Executing, fetching and converting                                      *)
(***************************************************************************)
\* hasattr(value, '__float__') and hasattr(value, '__int__'), by type of the value
HasFloat(t) == t \in {"int", "decimal", "float", "bool"}
HasInt(t) == t \in {"int", "decimal", "float", "bool"}

Str(value) == [t |-> "str", v |-> value.v]

\* a slip in the conversion: the int test comes before the float test
ConvertValueIntFirst(value) ==
    IF HasInt(value.t) THEN [t |-> "int", v |-> value.v]
    ELSE IF HasFloat(value.t) THEN [t |-> "float", v |-> value.v]
    ELSE IF value.t = "none" THEN value
    ELSE Str(value)

\* float(value) / int(value) / None / str(value), in the order of the if chain
ConvertValue(value) ==
    IF HasFloat(value.t) THEN [t |-> "float", v |-> value.v]
    ELSE IF HasInt(value.t) THEN [t |-> "int", v |-> value.v]
    ELSE IF value.t = "none" THEN value
    ELSE Str(value)

RowDict(value) == [column |-> "result", value |-> value]

\* a slip in the fetch: fetchall() whatever the limit
FetchAll(limit, rows) == rows

\* rows = cursor.fetchmany(limit) if limit else cursor.fetchall()
Fetch(limit, rows) ==
    IF Truthy(limit) THEN SubSeq(rows, 1, Min(limit[1], Len(rows))) ELSE rows

\* "limited": limit is not None and len(rows) == limit
Limited(limit, rows) == limit # None /\ Len(rows) = limit[1]

\* cursor.execute(text) on conn and everything up to the return of the rows
RunStatement(v, conn, limit, outcome) ==
    IF ~Live(conn) \/ outcome.kind # "rows"
    THEN [raised |-> "pyodbc.Error", data |-> <<>>, limited |-> FALSE]
    ELSE LET all == ResultRows(outcome)
         IN  CASE v \in {"p21_http", "p21_mcp", "epicore", "debug"} ->
                    LET rows == Fetch(limit, all)
                    IN  [raised |-> "",
                         data |-> [i \in 1..Len(rows) |-> RowDict(ConvertValue(rows[i]))],
                         limited |-> Limited(limit, rows)]
               [] v = "por_mcp" ->
                    LET data == [i \in 1..Len(all) |-> RowDict(all[i])]
                    IN  IF Truthy(limit) /\ Len(data) > limit[1]
                        THEN [raised |-> "", data |-> SubSeq(data, 1, limit[1]), limited |-> TRUE]
                        ELSE [raised |-> "", data |-> data, limited |-> FALSE]
               [] v = "por_http" ->
                    [raised |-> "", data |-> [i \in 1..Len(all) |-> RowDict(all[i])],
                     limited |-> FALSE]

(***************************************************************************)
(* The results execute_sql returns                                         *)
(*                                                                         *)
(* A result is the dict the call returns: keys is the set of its keys, the *)
(* other fields hold the values of the keys it has.  what is the record    *)
(* [resp, srv, trace] of one call: the result, the server object after it  *)
(* and the record of what the call did.                                    *)
(***************************************************************************)
NoResult ==
    [keys |-> {}, success |-> FALSE, error |-> "", row_count |-> 0, data |-> <<>>,
     limited |-> FALSE, query |-> None]

ValidationKeys(v) == IF v = "debug" THEN {"success", "error"} ELSE {"success", "error", "query"}

ErrorKeys(v) ==
    CASE v \in {"p21_http", "p21_mcp"} -> {"success", "error", "query", "execution_time"}
      [] v = "debug" -> {"success", "error", "traceback", "execution_time"}
      [] OTHER -> {"success", "error", "query"}

SuccessKeys(v) ==
    CASE v \in {"p21_http", "p21_mcp"} ->
            {"success", "row_count", "columns", "data", "query", "limited", "execution_time"}
      [] v \in {"epicore", "por_mcp"} ->
            {"success", "row_count", "columns", "data", "query", "limited"}
      [] v = "debug" -> {"success", "row_count", "columns", "data", "execution_time"}
      [] v = "por_http" -> {"success", "data", "row_count", "columns", "query"}

\* str(e)
Message(exc) ==
    CASE exc = "AttributeError" -> "'NoneType' object has no attribute 'upper'"
      [] exc = "TypeError" -> "argument 1 must be a string or unicode object"
      [] OTHER -> "database error"

\* a slip in the handler: except pyodbc.Error instead of except Exception
CaughtDriverOnly(exc) == exc = "pyodbc.Error"

\* except Exception as e:
Caught(exc) == exc \in {"AttributeError", "TypeError", "pyodbc.Error"}

Trace(executed, raised, escaped) ==
    [executed |-> executed, raised |-> raised, escaped |-> escaped]

\* a return out of the try block
Return(result, s, executed) ==
    [resp |-> result, srv |-> s, trace |-> Trace(executed, "", FALSE)]

\* an exception raised in the try block with the connection state s behind it
Raise(v, exc, query, s, executed) ==
    IF Caught(exc)
    THEN [resp |-> [NoResult EXCEPT !.keys = ErrorKeys(v), !.error = Message(exc),
                                    !.query = query],
          srv |-> s, trace |-> Trace(executed, exc, FALSE)]
    ELSE [resp |-> NoResult, srv |-> s, trace |-> Trace(executed, exc, TRUE)]

ValidationFailure(v, message, query) ==
    [NoResult EXCEPT !.keys = ValidationKeys(v), !.error = message, !.query = query]

Success(v, data, limited, query) ==
    [keys |-> SuccessKeys(v), success |-> TRUE, error |-> "", row_count |-> Len(data),
     data |-> data, limited |-> "limited" \in SuccessKeys(v) /\ limited, query |-> query]

(***************************************************************************)
(* execute_sql, one operator per server module                             *)
(***************************************************************************)
ExecuteSqlP21Http(s, sql_query, limit, outcome) ==
    LET v == "p21_http" IN
    IF sql_query = None THEN Raise(v, "AttributeError", sql_query, s, <<>>)
    ELSE IF ValidationError(v, sql_query[1]) # ""
    THEN Return(ValidationFailure(v, ValidationError(v, sql_query[1]), sql_query), s, <<>>)
    ELSE LET g == PlainGetConnection(s) IN
         IF g.raised # "" THEN Raise(v, g.raised, sql_query, g.srv, <<>>)
         ELSE LET r == RunStatement(v, g.conn, limit, outcome) IN
              IF r.raised # "" THEN Raise(v, r.raised, sql_query, g.srv, <<sql_query[1]>>)
              ELSE Return(Success(v, r.data, r.limited, sql_query), g.srv, <<sql_query[1]>>)

\* the connection is taken before the text is looked at, and put back by the finally
ExecuteSqlP21Mcp(s, sql_query, limit, outcome) ==
    LET v == "p21_mcp"
        g == PooledGetConnection(s)
        after == CloseConnection(g.srv, g.conn)
    IN  IF g.raised # "" THEN Raise(v, g.raised, sql_query, g.srv, <<>>)
        ELSE IF sql_query = None THEN Raise(v, "AttributeError", sql_query, after, <<>>)
        ELSE IF ValidationError(v, sql_query[1]) # ""
        THEN Return(ValidationFailure(v, ValidationError(v, sql_query[1]), sql_query), after, <<>>)
        ELSE LET r == RunStatement(v, g.conn, limit, outcome) IN
             IF r.raised # "" THEN Raise(v, r.raised, sql_query, after, <<sql_query[1]>>)
             ELSE Return(Success(v, r.data, r.limited, sql_query), after, <<sql_query[1]>>)

ExecuteSqlEpicore(s, sql_query, limit, outcome) ==
    LET v == "epicore"
        g == StoredGetConnection(s)
    IN  IF g.raised # "" THEN Raise(v, g.raised, sql_query, g.srv, g.executed)
        ELSE IF sql_query = None THEN Raise(v, "AttributeError", sql_query, g.srv, g.executed)
        ELSE IF ValidationError(v, sql_query[1]) # ""
        THEN Return(ValidationFailure(v, ValidationError(v, sql_query[1]), sql_query),
                    g.srv, g.executed)
        ELSE LET r == RunStatement(v, g.conn, limit, outcome)
                 executed == Append(g.executed, sql_query[1])
             IN  IF r.raised # "" THEN Raise(v, r.raised, sql_query, g.srv, executed)
                 ELSE Return(Success(v, r.data, r.limited, sql_query), g.srv, executed)

ExecuteSqlDebug(s, sql_query, limit, outcome) ==
    LET v == "debug" IN
    IF sql_query = None THEN Raise(v, "AttributeError", sql_query, s, <<>>)
    ELSE IF ValidationError(v, sql_query[1]) # ""
    THEN Return(ValidationFailure(v, ValidationError(v, sql_query[1]), sql_query), s, <<>>)
    ELSE LET g == PooledGetConnection(s)
             after == CloseConnection(g.srv, g.conn)
         IN  IF g.raised # "" THEN Raise(v, g.raised, sql_query, g.srv, <<>>)
             ELSE LET r == RunStatement(v, g.conn, limit, outcome) IN
                  IF r.raised # "" THEN Raise(v, r.raised, sql_query, after, <<sql_query[1]>>)
                  ELSE Return(Success(v, r.data, r.limited, sql_query), after, <<sql_query[1]>>)

\* the row returned for a text with SELECT 1 in it
TestConnectionRow == [column |-> "test_connection", value |-> [t |-> "int", v |-> 1]]

ExecuteSqlPorMcp(s, sql_query, limit, outcome) ==
    LET v == "por_mcp" IN
    IF sql_query = None THEN Raise(v, "AttributeError", sql_query, s, <<>>)
    ELSE IF ValidationError(v, sql_query[1]) # ""
    THEN Return(ValidationFailure(v, ValidationError(v, sql_query[1]), sql_query), s, <<>>)
    ELSE LET g == GetDb(s) IN
         IF g.raised # "" THEN Raise(v, g.raised, sql_query, g.srv, <<>>)
         ELSE IF Contains(SqlUpper(sql_query[1]), Chars("SELECT 1"))
         THEN Return(Success(v, <<TestConnectionRow>>, FALSE, sql_query), g.srv, <<>>)
         ELSE LET r == RunStatement(v, g.conn, limit, outcome) IN
              IF r.raised # "" THEN Raise(v, r.raised, sql_query, g.srv, <<sql_query[1]>>)
              ELSE Return(Success(v, r.data, r.limited, sql_query), g.srv, <<sql_query[1]>>)

\* if 'LIMIT' in sql_query.upper(): sql_query = sql_query.replace('LIMIT', 'TOP')
LimitToTop(sql_query) ==
    IF Contains(Upper(sql_query), Chars("LIMIT")) THEN Replace(sql_query, "LIMIT", "TOP") ELSE sql_query

\* no check of the text, and the limit parameter is not used
ExecuteSqlPorHttp(s, sql_query, limit, outcome) ==
    LET v == "por_http"
        g == StoredGetConnection(s)
    IN  IF g.raised # "" THEN Raise(v, g.raised, sql_query, g.srv, g.executed)
        ELSE IF sql_query = None THEN Raise(v, "AttributeError", sql_query, g.srv, g.executed)
        ELSE LET text == LimitToTop(sql_query[1])
                 r == RunStatement(v, g.conn, limit, outcome)
                 executed == Append(g.executed, text)
             IN  IF r.raised # "" THEN Raise(v, r.raised, Some(text), g.srv, executed)
                 ELSE Return(Success(v, r.data, r.limited, Some(text)), g.srv, executed)

ExecuteSql(v, s, sql_query, limit, outcome) ==
    CASE v = "p21_http" -> ExecuteSqlP21Http(s, sql_query, limit, outcome)
      [] v = "p21_mcp" -> ExecuteSqlP21Mcp(s, sql_query, limit, outcome)
      [] v = "epicore" -> ExecuteSqlEpicore(s, sql_query, limit, outcome)
      [] v = "debug" -> ExecuteSqlDebug(s, sql_query, limit, outcome)
      [] v = "por_mcp" -> ExecuteSqlPorMcp(s, sql_query, limit, outcome)
      [] v = "por_http" -> ExecuteSqlPorHttp(s, sql_query, limit, outcome)


(***************************************************************************)
(* The other tools: read_table_column, get_data_dictionary, list_tables    *)
(* and write_table_column                                                  *)
(*                                                                         *)
(* They take a connection the way execute_sql of their module does and run *)
(* a statement the server builds from the arguments.  tool is the record   *)
(* of such a call: its name, its arguments, what the database did with the *)
(* statement, the dict returned, the statements passed to cursor.execute   *)
(* and whether conn.commit() and conn.rollback() were called.              *)
(***************************************************************************)
ReadVariants == {"p21_http", "epicore", "debug", "por_mcp", "por_http"}

DictionaryVariants == {"p21_http", "p21_mcp", "epicore", "por_mcp"}

WriteVariants == {"epicore", "por_mcp"}

\* an optional text inside an f-string
PyStr(text) == IF text = None THEN "None" ELSE text[1]

\* if where_clause:
TruthyText(text) == text # None /\ text[1] # ""

\* the arguments object of a read_table_column call: has_table_name and
\* has_limit are whether the object has the key, and table_name, where_clause and
\* limit can hold null; column_name is always there
ReadArguments ==
    [table_name : {None, Some("customer")}, has_table_name : {TRUE},
     column_name : {Some("name")},
     where_clause : {None, Some("id = 7")}, has_limit : {TRUE},
     limit : {None, Some(0), Some(2), Some(-1)}]
    \cup [table_name : {None, Some("customer")}, has_table_name : {TRUE},
          column_name : {Some("name")},
          where_clause : {None, Some("id = 7")}, has_limit : {FALSE}, limit : {None}]
    \cup [table_name : {None}, has_table_name : {FALSE}, column_name : {Some("name")},
          where_clause : {None, Some("id = 7")}, has_limit : {FALSE}, limit : {None}]

\* arguments.get('limit', 100)
ReadLimit(arguments) == IF arguments.has_limit THEN arguments.limit ELSE Some(100)

DictionaryArguments == [table_pattern : {None, Some("cust")}]

WriteArguments ==
    [table_name : {"oe_hdr"}, column_name : {"status"}, value : {1},
     where_clause : {"order_no = 7", "1 = 1"}]

\* sql = f"SELECT TOP {limit} [{column_name}] FROM [{table_name}]" and the
\* other forms of the statement, by module
ReadSql(v, arguments) ==
    LET limit == ReadLimit(arguments)
        names == "[" \o PyStr(arguments.column_name) \o "] FROM ["
                     \o PyStr(arguments.table_name) \o "]"
        top == "SELECT TOP " \o IntToStr(limit[1]) \o " " \o names
        plain == "SELECT " \o names
        where == IF TruthyText(arguments.where_clause)
                 THEN " WHERE " \o arguments.where_clause[1] ELSE ""
    IN  CASE v = "por_mcp" ->
                plain \o where
                    \o (IF Truthy(limit) THEN " LIMIT " \o IntToStr(limit[1]) ELSE "")
          [] v = "debug" -> (IF Truthy(limit) /\ limit[1] > 0 THEN top ELSE plain) \o where
          [] OTHER -> (IF Truthy(limit) THEN top ELSE plain) \o where

\* get_tables of p21_mcp_server
get_tables_sql ==
    "\n                SELECT TABLE_NAME\n                FROM INFORMATION_SCHEMA.TABLES\n                WHERE TABLE_TYPE = 'BASE TABLE'\n                ORDER BY TABLE_NAME\n            "

\* get_table_schema of p21_mcp_server
get_table_schema_sql ==
    "\n                SELECT COLUMN_NAME, DATA_TYPE, IS_NULLABLE, COLUMN_DEFAULT\n                FROM INFORMATION_SCHEMA.COLUMNS\n                WHERE TABLE_NAME = %s\n                ORDER BY ORDINAL_POSITION\n            "

\* get_data_dictionary of p21_http_server and epicore_p21_mcp
schema_query ==
    "\n            SELECT \n                t.TABLE_CATALOG,\n                t.TABLE_SCHEMA,\n                t.TABLE_NAME,\n                t.TABLE_TYPE,\n                c.COLUMN_NAME,\n                c.ORDINAL_POSITION,\n                c.COLUMN_DEFAULT,\n                c.IS_NULLABLE,\n                c.DATA_TYPE,\n                c.CHARACTER_MAXIMUM_LENGTH,\n                c.NUMERIC_PRECISION,\n                c.NUMERIC_SCALE,\n                c.DATETIME_PRECISION\n            FROM INFORMATION_SCHEMA.TABLES t\n            LEFT JOIN INFORMATION_SCHEMA.COLUMNS c ON t.TABLE_NAME = c.TABLE_NAME\n            WHERE t.TABLE_TYPE = 'BASE TABLE'\n            "

DictionarySql(arguments) ==
    schema_query
        \o (IF TruthyText(arguments.table_pattern)
            THEN " AND t.TABLE_NAME LIKE '" \o arguments.table_pattern[1] \o "'" ELSE "")
        \o " ORDER BY t.TABLE_NAME, c.ORDINAL_POSITION"

\* sql = f"UPDATE [{table_name}] SET [{column_name}] = ? WHERE {where_clause}"
UpdateSql(arguments) ==
    "UPDATE [" \o arguments.table_name \o "] SET [" \o arguments.column_name
        \o "] = ? WHERE " \o arguments.where_clause

\* cursor.rowcount after the UPDATE
Updated(n) == [kind |-> "updated", n |-> n, cell |-> "int"]

WriteOutcomes == {Updated(0), Updated(1), Failing("exec_error")}

\* what the database does with the statement of read_table_column: SELECT TOP n
\* has at most n rows, and no database of the servers takes LIMIT, a negative
\* TOP or a table named None
ReadOutcomes(v, arguments) ==
    LET sql == ReadSql(v, arguments)
        most == IF Contains(sql, "SELECT TOP ") THEN Min(ReadLimit(arguments)[1], MaxRows)
                ELSE MaxRows
    IN  IF Contains(sql, " LIMIT ") \/ Contains(sql, "TOP -") \/ Contains(sql, "[None]")
        THEN {Failing("exec_error")}
        ELSE {Failing("exec_error"), Failing("fetch_error"), Rows(1, "decimal"),
              Rows(1, "date"), Rows(1, "none")}
             \cup {Rows(n, "int") : n \in 0..most}

\* the rows of a catalogue query, one table name each; schemas[i] is whether the
\* database takes the column query of get_table_schema for the i-th of them
Catalogue(names, schemas) ==
    [kind |-> "rows", n |-> Len(names), cell |-> "str", tables |-> names, schemas |-> schemas]

CatalogueNames ==
    {<<>>, <<"customer">>, <<"customer", "customer">>, <<"customer", "oe_hdr">>,
     <<"MSysObjects", "oe_hdr">>}

DictionaryOutcomes(v) ==
    {Failing("exec_error")}
    \cup {Catalogue(names, schemas) :
            names \in CatalogueNames,
            schemas \in IF v = "p21_mcp" THEN {<<FALSE, FALSE>>, <<TRUE, FALSE>>, <<TRUE, TRUE>>}
                        ELSE {<<>>}}

ToolResult(keys, success, error) == [keys |-> keys, success |-> success, error |-> error]

ReadResult(keys, success, error, data, query) ==
    [keys |-> keys, success |-> success, error |-> error, row_count |-> Len(data),
     data |-> data, query |-> query]

ReadSuccessKeys(v) ==
    {"success", "table", "column", "row_count", "data", "query"}
    \cup (IF v = "debug" THEN {"execution_time"} ELSE {})

ReadFailureKeys(v) ==
    {"success", "error", "table", "column"}
    \cup (IF v = "debug" THEN {"traceback", "execution_time"} ELSE {})

ReadFailure(v, exc) == ReadResult(ReadFailureKeys(v), FALSE, Message(exc), <<>>, None)

DictionaryResult(keys, success, error, tables) ==
    [keys |-> keys, success |-> success, error |-> error,
     table_count |-> Cardinality(tables), tables |-> tables]

DictionarySuccessKeys(v) ==
    {"success", "table_count", "tables", "generated_at"}
    \cup (IF v = "por_mcp" THEN {"database_type"} ELSE {})

DictionaryFailure(exc) == DictionaryResult({"success", "error"}, FALSE, Message(exc), {})

WriteResult(keys, success, error, affected_rows, query) ==
    [keys |-> keys, success |-> success, error |-> error, affected_rows |-> affected_rows,
     query |-> query]

WriteFailure(exc) ==
    WriteResult({"success", "error", "table", "column"}, FALSE, Message(exc), 0, None)

WriteSuccessKeys(v) ==
    IF v = "epicore"
    THEN {"success", "table", "column", "affected_rows", "value", "where_clause", "query"}
    ELSE {"success", "table", "column", "value", "affected_rows", "query"}

\* call_tool of epicore_p21_mcp and por_mcp: except Exception as e, the answer is
\* the text "Error executing tool: ..." with isError set
ToolCallError(message) == ToolResult({}, FALSE, "Error executing tool: " \o message)

NoToolCall ==
    [name |-> "",
     arguments |-> [table_name |-> "", column_name |-> "", value |-> 0, where_clause |-> ""],
     outcome |-> Failing("none"),
     result |-> WriteResult({}, FALSE, "", 0, None),
     executed |-> <<>>, committed |-> FALSE, rolled_back |-> FALSE]

\* what a tool call did: the dict, the server object after it, the statements
Done(result, s, executed) ==
    [result |-> result, srv |-> s, executed |-> executed, committed |-> FALSE,
     rolled_back |-> FALSE]

\* get_connection() or get_db() of the module
ToolConnection(v, s) ==
    CASE v \in {"epicore", "por_http"} -> StoredGetConnection(s)
      [] v = "por_mcp" -> GetDb(s)
      [] v \in {"p21_mcp", "debug"} -> PooledGetConnection(s)
      [] v = "p21_http" -> PlainGetConnection(s)

\* read_table_column(table_name, column_name, where_clause, limit); debug_server
\* puts its connection back in the finally, the others keep or drop theirs
ReadTableColumn(v, s, arguments, outcome) ==
    LET g == ToolConnection(v, s)
        after == IF v = "debug" THEN CloseConnection(g.srv, g.conn) ELSE g.srv
        sql == ReadSql(v, arguments)
    IN  IF v = "debug"
           /\ ~(TruthyText(arguments.table_name) /\ TruthyText(arguments.column_name))
        THEN Done(ToolResult({"success", "error"}, FALSE,
                             "Table name and column name are required"), s, <<>>)
        ELSE IF g.raised # "" THEN Done(ReadFailure(v, g.raised), g.srv, g.executed)
        ELSE IF ~Live(g.conn) \/ outcome.kind # "rows"
        THEN Done(ReadFailure(v, "pyodbc.Error"), after, Append(g.executed, sql))
        ELSE Done(ReadResult(ReadSuccessKeys(v), TRUE, "", ResultRows(outcome), Some(sql)),
                  after, Append(g.executed, sql))

\* the types json.dumps takes
JsonTypes == {"int", "float", "str", "none", "bool"}

\* the class name of a driver value json.dumps does not take
PyTypeName(t) == CASE t = "decimal" -> "Decimal" [] t = "date" -> "date" [] OTHER -> t

\* json.dumps raises TypeError at the first value it cannot take
SerialiseError(cells) ==
    LET bad == {i \in 1..Len(cells) : cells[i].t \notin JsonTypes}
        first == CHOOSE i \in bad : \A j \in bad : i <= j
    IN  IF bad = {} THEN ""
        ELSE "Object of type " \o PyTypeName(cells[first].t) \o " is not JSON serializable"

\* the cells of the rows of an execute_sql result, row by row
ResultCells(result) == [i \in 1..Len(result.data) |-> result.data[i].value]

\* the modules whose tool handler is call_tool of an MCP server
McpVariants == {"p21_mcp", "epicore", "por_mcp"}

\* what call_tool answers with what execute_sql did: json.dumps(result, indent=2)
\* is inside the try, whose except branch answers {"success": false, "error": ...}
\* in p21_mcp_server and "Error executing tool: ..." in epicore_p21_mcp and por_mcp
ExecuteSqlAnswer(v, what) ==
    LET message == IF what.trace.escaped THEN Message(what.trace.raised)
                   ELSE SerialiseError(ResultCells(what.resp))
    IN  IF message = ""
        THEN ToolResult(what.resp.keys, what.resp.success, what.resp.error)
        ELSE IF v = "p21_mcp" THEN ToolResult({"success", "error"}, FALSE, message)
        ELSE ToolCallError(message)

\* call_tool of epicore_p21_mcp and por_mcp, request.name == "read_table_column":
\* request.arguments["table_name"] raises KeyError when the key is missing and
\* hands on null when it holds null; then the call and json.dumps(result)
CallReadTableColumn(v, s, arguments, outcome) ==
    LET Dumps(done) ==
            IF SerialiseError(done.result.data) # ""
            THEN Done(ToolCallError(SerialiseError(done.result.data)),
                      done.srv, done.executed)
            ELSE done
    IN  IF ~arguments.has_table_name THEN Done(ToolCallError("'table_name'"), s, <<>>)
        ELSE Dumps(ReadTableColumn(v, s, arguments, outcome))

\* the tables get_data_dictionary of por_mcp reports of those cursor.tables()
\* lists. table_info is the cursor itself, and cursor.columns(table=table_name)
\* puts its rows on that same cursor: for row in table_info passes over the
\* tables it skips, and after the first it keeps and the loop over its columns
\* the cursor has no further row.
KeptTables(names, table_pattern) ==
    LET kept == {j \in 1..Len(names) :
                    /\ ~StartsWith(names[j], "MSys")
                    /\ (TruthyText(table_pattern) => Contains(names[j], table_pattern[1]))}
    IN  IF kept = {} THEN {}
        ELSE {names[CHOOSE j \in kept : \A k \in kept : j <= k]}

\* get_data_dictionary(table_pattern) of p21_http_server, epicore_p21_mcp and
\* por_mcp; por_mcp reads the catalogue with cursor.tables() and cursor.columns()
GetDataDictionary(v, s, arguments, outcome) ==
    LET g == ToolConnection(v, s)
        sql == DictionarySql(arguments)
    IN  IF g.raised # "" THEN Done(DictionaryFailure(g.raised), g.srv, g.executed)
        ELSE IF v = "por_mcp"
        THEN IF outcome.kind # "rows" THEN Done(DictionaryFailure("pyodbc.Error"), g.srv, <<>>)
             ELSE Done(DictionaryResult(DictionarySuccessKeys(v), TRUE, "",
                                        KeptTables(outcome.tables, arguments.table_pattern)),
                       g.srv, <<>>)
        ELSE IF ~Live(g.conn) \/ outcome.kind # "rows"
        THEN Done(DictionaryFailure("pyodbc.Error"), g.srv, Append(g.executed, sql))
        ELSE Done(DictionaryResult(DictionarySuccessKeys(v), TRUE, "",
                                   {outcome.tables[i] : i \in 1..Len(outcome.tables)}),
                  g.srv, Append(g.executed, sql))

\* p21_mcp_server: get_tables(); the connection goes back to the pool only when
\* the statement and the fetch went through, and every exception gives []
GetTables(s, outcome) ==
    LET g == PooledGetConnection(s) IN
    IF g.raised # "" THEN [tables |-> <<>>, srv |-> g.srv, executed |-> <<>>]
    ELSE IF ~Live(g.conn) \/ outcome.kind # "rows"
    THEN [tables |-> <<>>, srv |-> g.srv, executed |-> <<get_tables_sql>>]
    ELSE [tables |-> outcome.tables, srv |-> CloseConnection(g.srv, g.conn),
          executed |-> <<get_tables_sql>>]

\* p21_mcp_server: get_table_schema(table_name); answers {"error": ...} when
\* something raises and {"table": ..., "columns": ...} otherwise
GetTableSchema(s, table_name, taken) ==
    LET g == PooledGetConnection(s) IN
    IF g.raised # "" THEN [keys |-> {"error"}, srv |-> g.srv, executed |-> <<>>]
    ELSE IF ~Live(g.conn) \/ ~taken
    THEN [keys |-> {"error"}, srv |-> g.srv, executed |-> <<get_table_schema_sql>>]
    ELSE [keys |-> {"table", "columns"}, srv |-> CloseConnection(g.srv, g.conn),
          executed |-> <<get_table_schema_sql>>]

\* for table in tables: schema_info[table] = db.get_table_schema(table)
RECURSIVE SchemaLoop(_, _, _, _, _)
SchemaLoop(s, tables, schemas, i, executed) ==
    IF i > Len(tables) THEN [srv |-> s, executed |-> executed]
    ELSE LET one == GetTableSchema(s, tables[i], schemas[i])
         IN  SchemaLoop(one.srv, tables, schemas, i + 1, executed \o one.executed)

ListResult(keys, tables) ==
    [keys |-> keys, success |-> TRUE, error |-> "", count |-> Len(tables), tables |-> tables]

\* call_tool of p21_mcp_server: tool_name == "list_tables"
ListTables(s, outcome) ==
    LET t == GetTables(s, outcome)
    IN  Done(ListResult({"success", "tables", "count"}, t.tables), t.srv, t.executed)

\* read_resource(uri) of p21_mcp_server: the table list under "tables", the
\* schemas as an object with one key for each table name, and ValueError, which
\* leaves read_resource, for any other uri
ResourceArguments == [uri : {"p21://tables", "p21://schema", "p21://other"}]

ReadResource(s, arguments, outcome) ==
    LET Tables(t) == Done(ListResult({"tables"}, t.tables), t.srv, t.executed)
        Schemas(t, all) ==
            Done(ListResult({t.tables[i] : i \in 1..Len(t.tables)}, t.tables),
                 all.srv, all.executed)
        Loop(t) == Schemas(t, SchemaLoop(t.srv, t.tables, outcome.schemas, 1, t.executed))
    IN  CASE arguments.uri = "p21://tables" -> Tables(GetTables(s, outcome))
          [] arguments.uri = "p21://schema" -> Loop(GetTables(s, outcome))
          [] OTHER ->
                Done(ToolResult({}, FALSE, "Unknown resource: " \o arguments.uri), s, <<>>)

\* call_tool of p21_mcp_server: tool_name == "get_data_dictionary"
GetDataDictionaryP21Mcp(s, outcome) ==
    LET Schemas(t, all) ==
            Done(ListResult({"success", "tables_examined", "tables", "schema"}, t.tables),
                 all.srv, all.executed)
        Loop(t) == Schemas(t, SchemaLoop(t.srv, t.tables, outcome.schemas, 1, t.executed))
    IN  Loop(GetTables(s, outcome))

\* write_table_column(table_name, column_name, value, where_clause): the
\* connection (get_connection in epicore_p21_mcp, with get_db() in por_mcp), the
\* UPDATE, the commit; epicore_p21_mcp tries conn.rollback() in its except branch
WriteTableColumn(v, s, arguments, outcome) ==
    LET g == ToolConnection(v, s)
        sql == UpdateSql(arguments)
    IN  IF g.raised # ""
        THEN [result |-> WriteFailure(g.raised), srv |-> g.srv, executed |-> g.executed,
              committed |-> FALSE, rolled_back |-> FALSE]
        ELSE IF ~Live(g.conn) \/ outcome.kind # "updated"
        THEN [result |-> WriteFailure("pyodbc.Error"), srv |-> g.srv,
              executed |-> Append(g.executed, sql),
              committed |-> FALSE, rolled_back |-> v = "epicore"]
        ELSE [result |-> WriteResult(WriteSuccessKeys(v), TRUE, "", outcome.n, Some(sql)),
              srv |-> g.srv, executed |-> Append(g.executed, sql),
              committed |-> TRUE, rolled_back |-> FALSE]

\* the tools other than execute_sql the handler of the module dispatches on
OtherTools(v) ==
    CASE v = "p21_http" -> {"read_table_column", "get_data_dictionary"}
      [] v = "p21_mcp" -> {"list_tables", "get_data_dictionary"}
      [] v \in {"epicore", "por_mcp"} ->
            {"read_table_column", "write_table_column", "get_data_dictionary"}
      [] v \in {"debug", "por_http"} -> {"read_table_column"}

ToolOutcomes(v, name, arguments) ==
    CASE name = "read_table_column" -> ReadOutcomes(v, arguments)
      [] name = "write_table_column" -> WriteOutcomes
      [] OTHER -> DictionaryOutcomes(v)

\* the tool handler's branch for the tool
RunTool(v, s, name, arguments, outcome) ==
    CASE name = "read_table_column" ->
            IF v \in SubscriptVariants THEN CallReadTableColumn(v, s, arguments, outcome)
            ELSE ReadTableColumn(v, s, arguments, outcome)
      [] name = "write_table_column" -> WriteTableColumn(v, s, arguments, outcome)
      [] name = "list_tables" -> ListTables(s, outcome)
      [] name = "read_resource" -> ReadResource(s, arguments, outcome)
      [] name = "get_data_dictionary" ->
            IF v = "p21_mcp" THEN GetDataDictionaryP21Mcp(s, outcome)
            ELSE GetDataDictionary(v, s, arguments, outcome)

ToolRecord(name, arguments, outcome, done) ==
    [name |-> name, arguments |-> arguments, outcome |-> outcome, result |-> done.result,
     executed |-> done.executed, committed |-> done.committed,
     rolled_back |-> done.rolled_back]

(***************************************************************************)
(* Spec: one server process and the database it talks to                   *)
(*                                                                         *)
(* The process answers one tool call at a time.  A call is one step,       *)
(* except where the code waits: get_connection of p21_http_server on an    *)
(* object without a connection string runs setup_connection, which sleeps  *)
(* a second after its first and after its second failed attempt to         *)
(* connect.  pc is "waiting1" or "waiting2" during those sleeps, and the   *)
(* database can come and go in them.                                       *)
(***************************************************************************)
NoRequest ==
    [arguments |-> [sql_query |-> None, has_sql_query |-> FALSE, has_limit |-> FALSE,
                    limit |-> None],
     limit |-> None,
     outcome |-> [kind |-> "none", n |-> 0, cell |-> "int"]]

GeneratorIdle == file = NoFile /\ prev = NoFile /\ created = {} /\ runs = 0

Init ==
    /\ variant \in Variants
    /\ dbUp = TRUE
    /\ dbEpoch = 0
    /\ srv \in {Constructed, Started(variant)}
    /\ req = NoRequest
    /\ resp = NoResult
    /\ trace = Trace(<<>>, "", FALSE)
    /\ pc = "idle"
    /\ tool = NoToolCall
    /\ GeneratorIdle
    /\ PoolIdle
    /\ PatchIdle
    /\ HttpIdle
    /\ RebuildIdle

\* for attempt in range(max_retries): the first attempt of setup_connection
\* fails and the call sleeps
EntersSetup(v, s) == v = "p21_http" /\ ~s.connection_string /\ ~dbUp

\* execute_sql of p21_http_server gets as far as get_connection with this text
ReachesConnection(sql_query) ==
    sql_query # None /\ ValidationError("p21_http", sql_query[1]) = ""

\* self.connection_string = f"DSN={self.dsn};", set before the first attempt
InSetup(s) == [s EXCEPT !.connection_string = TRUE]

Waiting == pc \in {"waiting1", "waiting2"}

\* call_tool of epicore_p21_mcp and por_mcp reads request.arguments["sql_query"]:
\* without the key it is a KeyError, which the handler answers without a call of
\* execute_sql
MissingSqlQuery(v, arguments) == v \in SubscriptVariants /\ ~arguments.has_sql_query

\* the tool handler reads the arguments and calls execute_sql(sql_query, limit);
\* resp is what execute_sql returned, and in the MCP modules tool.result is what
\* call_tool answers with it
ExecuteSqlCall ==
    /\ pc = "idle"
    /\ \E arguments \in Arguments :
          IF MissingSqlQuery(variant, arguments)
          THEN /\ tool' = ToolRecord("execute_sql", arguments, NoRequest.outcome,
                                     Done(ToolCallError("'sql_query'"), srv, <<>>))
               /\ pc' = "answered"
               /\ UNCHANGED <<srv, req, resp, trace>>
          ELSE \E outcome \in OutcomesFor(SqlArgument(variant, arguments)) :
                  LET sql_query == SqlArgument(variant, arguments)
                      limit == LimitArgument(variant, arguments)
                      Returns(what) ==
                          /\ req' = [arguments |-> arguments, limit |-> limit,
                                     outcome |-> outcome]
                          /\ resp' = what.resp
                          /\ srv' = what.srv
                          /\ trace' = what.trace
                          /\ tool' = IF variant \in McpVariants
                                     THEN ToolRecord("execute_sql", arguments, outcome,
                                                     Done(ExecuteSqlAnswer(variant, what),
                                                          what.srv, what.trace.executed))
                                     ELSE tool
                          /\ pc' = "returned"
                  IN  IF EntersSetup(variant, srv) /\ ReachesConnection(sql_query)
                      THEN /\ req' = [arguments |-> arguments, limit |-> limit,
                                      outcome |-> NoRequest.outcome]
                           /\ srv' = InSetup(srv)
                           /\ pc' = "waiting1"
                           /\ UNCHANGED <<resp, trace, tool>>
                      ELSE Returns(ExecuteSql(variant, srv, sql_query, limit, outcome))
    /\ UNCHANGED <<variant, dbUp, dbEpoch>>
    /\ UNCHANGED <<genVars, poolVars, patchVars, httpVars, rebuildVars>>

\* a call of the tool name with arguments: one step to its result, or into the
\* first sleep of setup_connection
ToolStep(name, arguments) ==
    IF EntersSetup(variant, srv)
    THEN /\ tool' = [NoToolCall EXCEPT !.name = name, !.arguments = arguments]
         /\ srv' = InSetup(srv)
         /\ pc' = "waiting1"
    ELSE \E outcome \in ToolOutcomes(variant, name, arguments) :
            LET Answers(done) ==
                    /\ tool' = ToolRecord(name, arguments, outcome, done)
                    /\ srv' = done.srv
                    /\ pc' = "answered"
            IN  Answers(RunTool(variant, srv, name, arguments, outcome))

\* the tool handler: read_table_column
ReadTableColumnCall ==
    /\ pc = "idle"
    /\ "read_table_column" \in OtherTools(variant)
    /\ \E arguments \in ReadArguments : ToolStep("read_table_column", arguments)
    /\ UNCHANGED <<variant, dbUp, dbEpoch, req, resp, trace>>
    /\ UNCHANGED <<genVars, poolVars, patchVars, httpVars, rebuildVars>>

\* the tool handler: get_data_dictionary
GetDataDictionaryCall ==
    /\ pc = "idle"
    /\ "get_data_dictionary" \in OtherTools(variant)
    /\ \E arguments \in DictionaryArguments : ToolStep("get_data_dictionary", arguments)
    /\ UNCHANGED <<variant, dbUp, dbEpoch, req, resp, trace>>
    /\ UNCHANGED <<genVars, poolVars, patchVars, httpVars, rebuildVars>>

\* the tool handler of p21_mcp_server: list_tables
ListTablesCall ==
    /\ pc = "idle"
    /\ "list_tables" \in OtherTools(variant)
    /\ \E arguments \in DictionaryArguments : ToolStep("list_tables", arguments)
    /\ UNCHANGED <<variant, dbUp, dbEpoch, req, resp, trace>>
    /\ UNCHANGED <<genVars, poolVars, patchVars, httpVars, rebuildVars>>

\* read_resource(uri) of p21_mcp_server
ReadResourceCall ==
    /\ pc = "idle"
    /\ variant = "p21_mcp"
    /\ \E arguments \in ResourceArguments : ToolStep("read_resource", arguments)
    /\ UNCHANGED <<variant, dbUp, dbEpoch, req, resp, trace>>
    /\ UNCHANGED <<genVars, poolVars, patchVars, httpVars, rebuildVars>>

\* the tool handler of epicore_p21_mcp and por_mcp: write_table_column
WriteTableColumnCall ==
    /\ pc = "idle"
    /\ "write_table_column" \in OtherTools(variant)
    /\ \E arguments \in WriteArguments : ToolStep("write_table_column", arguments)
    /\ UNCHANGED <<variant, dbUp, dbEpoch, req, resp, trace>>
    /\ UNCHANGED <<genVars, poolVars, patchVars, httpVars, rebuildVars>>

\* time.sleep(1) returns, the second attempt fails too and the call sleeps again
SetupRetryFails ==
    /\ pc = "waiting1"
    /\ ~dbUp
    /\ pc' = "waiting2"
    /\ UNCHANGED <<variant, dbUp, dbEpoch, srv, req, resp, trace>>
    /\ UNCHANGED <<genVars, extraVars>>

\* time.sleep(1) returns and the call runs to its end: the attempt succeeds and
\* get_connection connects, or it was the last attempt and the call ends with
\* its exception
CallResumes ==
    /\ Waiting
    /\ dbUp \/ pc = "waiting2"
    /\ IF tool.name = ""
       THEN /\ \E outcome \in OutcomesFor(SqlArgument(variant, req.arguments)) :
                  LET Returns(what) ==
                          /\ req' = [req EXCEPT !.outcome = outcome]
                          /\ resp' = what.resp
                          /\ srv' = what.srv
                          /\ trace' = what.trace
                  IN  Returns(ExecuteSql(variant, srv, SqlArgument(variant, req.arguments),
                                         req.limit, outcome))
            /\ pc' = "returned"
            /\ UNCHANGED tool
       ELSE /\ \E outcome \in ToolOutcomes(variant, tool.name, tool.arguments) :
                  LET Answers(done) ==
                          /\ tool' = ToolRecord(tool.name, tool.arguments, outcome, done)
                          /\ srv' = done.srv
                  IN  Answers(RunTool(variant, srv, tool.name, tool.arguments, outcome))
            /\ pc' = "answered"
            /\ UNCHANGED <<req, resp, trace>>
    /\ UNCHANGED <<variant, dbUp, dbEpoch>>
    /\ UNCHANGED <<genVars, poolVars, patchVars, httpVars, rebuildVars>>

\* the handler has sent the result and waits for the next call
ResultSent ==
    /\ pc \in {"returned", "answered"}
    /\ pc' = "idle"
    /\ req' = NoRequest
    /\ resp' = NoResult
    /\ trace' = Trace(<<>>, "", FALSE)
    /\ tool' = NoToolCall
    /\ UNCHANGED <<variant, dbUp, dbEpoch, srv>>
    /\ UNCHANGED <<genVars, poolVars, patchVars, httpVars, rebuildVars>>

\* the database goes away: every open connection is broken from now on
DbGoesDown ==
    /\ pc = "idle" \/ Waiting
    /\ dbUp
    /\ dbEpoch < MaxOutages
    /\ dbUp' = FALSE
    /\ dbEpoch' = dbEpoch + 1
    /\ UNCHANGED <<variant, srv, req, resp, trace, pc>>
    /\ UNCHANGED <<genVars, extraVars>>

DbComesUp ==
    /\ pc = "idle" \/ Waiting
    /\ ~dbUp
    /\ dbUp' = TRUE
    /\ UNCHANGED <<variant, dbEpoch, srv, req, resp, trace, pc>>
    /\ UNCHANGED <<genVars, extraVars>>

Next ==
    \/ ExecuteSqlCall
    \/ ReadTableColumnCall
    \/ GetDataDictionaryCall
    \/ ListTablesCall
    \/ ReadResourceCall
    \/ WriteTableColumnCall
    \/ SetupRetryFails
    \/ CallResumes
    \/ ResultSent
    \/ DbGoesDown
    \/ DbComesUp

Spec == Init /\ [][Next]_vars

(***************************************************************************)
(* Claims about execute_sql (checked under Spec)                           *)
(***************************************************************************)
Returned == pc = "returned"

\* the text of the last call, for calls that passed one
SqlText == req.arguments.sql_query[1]

StartsWithSelect(text) == StartsWith(StripChars(Upper(text)), Chars("SELECT"))

DenyWords == {"DROP", "DELETE", "TRUNCATE", "INSERT", "UPDATE", "ALTER", "CREATE"}

HasDenyWord(text) == \E word \in DenyWords : Contains(Upper(text), Chars(word))

PassedToExecute(text) == \E i \in 1..Len(trace.executed) : trace.executed[i] = text

\* the call returned a dict with success false and an error message
Refused ==
    /\ ~trace.escaped
    /\ {"success", "error"} \subseteq resp.keys
    /\ resp.success = FALSE
    /\ resp.error # ""

\* C4: in execute_sql of p21_http_server, p21_mcp_server, epicore_p21_mcp, debug_server
\* and por_mcp a statement whose trimmed, upper-cased text does not start with SELECT
\* is answered with success false and is never passed to cursor.execute.
C4_NonSelectRefused ==
    (/\ Returned
     /\ variant \in {"p21_http", "p21_mcp", "epicore", "debug", "por_mcp"}
     /\ req.arguments.sql_query # None
     /\ ~StartsWithSelect(SqlText))
    => (Refused /\ ~PassedToExecute(SqlText))

\* C4 witness: epicore_p21_mcp has probed its connection with SELECT 1, refused
\* DROP TABLE x and executed nothing else.
C4_Witness ==
    /\ Returned
    /\ variant = "epicore"
    /\ req.arguments.sql_query = Some("DROP TABLE x")
    /\ resp.error = "Only SELECT statements are allowed for security reasons"
    /\ trace.executed = <<"SELECT 1">>

\* C5: por_http_server's execute_sql refuses every statement that does not start with
\* SELECT: it returns a failure and never passes the statement to cursor.execute.
C5_PorHttpNonSelectRefused ==
    (/\ Returned
     /\ variant = "por_http"
     /\ req.arguments.sql_query # None
     /\ ~StartsWithSelect(SqlText))
    => (Refused /\ ~PassedToExecute(SqlText))

\* C6: in execute_sql of p21_http_server, p21_mcp_server and epicore_p21_mcp a statement
\* that starts with SELECT and whose upper-cased text contains DROP, DELETE, TRUNCATE,
\* INSERT, UPDATE, ALTER or CREATE anywhere is answered with success false and is never
\* passed to cursor.execute.
C6_DenylistRefused ==
    (/\ Returned
     /\ variant \in {"p21_http", "p21_mcp", "epicore"}
     /\ req.arguments.sql_query # None
     /\ StartsWithSelect(SqlText)
     /\ HasDenyWord(SqlText))
    => (Refused /\ ~PassedToExecute(SqlText))

\* C6 witness: p21_mcp_server has refused a SELECT of the column date_created, whose
\* upper-cased name holds CREATE.
C6_Witness ==
    /\ Returned
    /\ variant = "p21_mcp"
    /\ req.arguments.sql_query = Some("SELECT date_created FROM customer")
    /\ resp.error = "SQL contains potentially dangerous keyword: CREATE"
    /\ trace.executed = <<>>

\* C7: por_mcp's execute_sql refuses both "DROP TABLE x" and
\* "SELECT * FROM x; DROP TABLE y" without executing them, and answers "SELECT 1"
\* (the database file being reachable) with success and the one row
\* {"test_connection": 1}.
C7_PorMcpExamples ==
    (Returned /\ variant = "por_mcp" /\ req.arguments.sql_query # None) =>
        /\ SqlText \in {"DROP TABLE x", "SELECT * FROM x; DROP TABLE y"}
              => (Refused /\ ~PassedToExecute(SqlText))
        /\ (SqlText = "SELECT 1" /\ dbUp /\ srv.connection_string)
              => (resp.success /\ resp.row_count = 1 /\ resp.data = <<TestConnectionRow>>)

\* the last call passed a positive limit and a text that the SELECT check and the
\* keyword list let through, the database had a result set for it, and no exception
\* was raised on the way
LimitCase ==
    /\ Returned
    /\ variant \in {"p21_http", "p21_mcp", "epicore"}
    /\ req.arguments.sql_query # None
    /\ StartsWithSelect(SqlText)
    /\ ~HasDenyWord(SqlText)
    /\ req.limit # None
    /\ req.limit[1] > 0
    /\ req.outcome.kind = "rows"
    /\ trace.raised = ""

\* min(L, N) rows, row_count the same number, limited exactly when N >= L
LimitHonoured ==
    LET L == req.limit[1]
        N == req.outcome.n
    IN  /\ resp.success
        /\ Len(resp.data) = Min(L, N)
        /\ resp.row_count = Min(L, N)
        /\ resp.limited = (N >= L)

\* the test hook of p21_http_server and epicore_p21_mcp answers the text
AnsweredBySandboxHook ==
    variant \in {"p21_http", "epicore"} /\ Contains(Lower(SqlText), "mcp_sandboxed_inv")

\* C8 as stated: in execute_sql of p21_http_server, p21_mcp_server and epicore_p21_mcp,
\* for every positive limit L and every validated query whose result set has N rows the
\* response carries min(L, N) rows, row_count equals that number and limited is true
\* exactly when N >= L.
C8_LimitEveryValidated == LimitCase => LimitHonoured

\* C8: the same for every validated query except those that p21_http_server and
\* epicore_p21_mcp answer from their sandbox hook: a validated text whose
\* lower-cased form contains mcp_sandboxed_inv gets success false with the
\* hook's message there and is not executed.
C8_LimitOutsideSandbox ==
    /\ (LimitCase /\ ~AnsweredBySandboxHook) => LimitHonoured
    /\ (LimitCase /\ AnsweredBySandboxHook) =>
            /\ Refused
            /\ resp.error = "Connection to MCP Sandbox failed: Network timeout."
            /\ ~PassedToExecute(SqlText)

\* C8 witness: epicore_p21_mcp was asked for 2 rows of a result set of exactly 2 and
\* returned both with limited true.
C8_Witness ==
    /\ LimitCase
    /\ variant = "epicore"
    /\ req.arguments.sql_query = Some("select name from customer")
    /\ req.limit = Some(2)
    /\ req.outcome.n = 2
    /\ Len(resp.data) = 2
    /\ resp.limited

\* C9: por_http_server's execute_sql enforces the caller's row limit: for every limit
\* L >= 1 the handler passes, a successful response carries at most L rows.
C9_PorHttpLimit ==
    (/\ Returned
     /\ variant = "por_http"
     /\ req.limit # None
     /\ req.limit[1] >= 1
     /\ resp.success)
    => Len(resp.data) <= req.limit[1]

\* C10: in every variant an exception raised while execute_sql obtains a connection,
\* executes, fetches or converts is turned into a returned result with success false
\* and an error message; none leaves execute_sql, whose every call returns a result.
C10_ExceptionsBecomeResults ==
    Returned =>
        /\ ~trace.escaped
        /\ "success" \in resp.keys
        /\ trace.raised # "" => Refused

\* C10 witness: the database is down, por_http_server's probe of its kept connection
\* and its reconnect have failed, and the call returned the failure result.
C10_Witness ==
    /\ Returned
    /\ variant = "por_http"
    /\ ~dbUp
    /\ req.arguments.sql_query = Some("select name from customer")
    /\ trace.raised = "pyodbc.Error"
    /\ trace.executed = <<"SELECT 1">>
    /\ Refused

(***************************************************************************)
(* Connection recovery                                                     *)
(***************************************************************************)
PooledVariants == {"p21_mcp", "debug"}

SingleConnectionVariants == {"por_http", "epicore"}

\* the step from a call to its result
CallStep == pc = "idle" /\ pc' = "returned"

\* the call obtained a connection and its statement failed on it
OperationErrorStep ==
    /\ CallStep
    /\ trace'.raised = "pyodbc.Error"
    /\ trace'.executed # <<>>

\* the connection the pooled get_connection hands out was taken from the pool
TakenFromPool == srv.is_connected /\ srv.connection_string /\ srv.pool # <<>>

\* C11: in the pooled variants an operation error on a connection, while the
\* wrapper is connected, leaves the wrapper disconnected (is_connected false)
\* and the failed connection out of the pool, so that the next request
\* reconnects on a fresh connection.
C11_OperationErrorDisconnects ==
    [][(OperationErrorStep /\ variant \in PooledVariants /\ srv.is_connected)
          => /\ ~srv'.is_connected
             /\ Len(srv'.pool) = Len(srv.pool) - (IF TakenFromPool THEN 1 ELSE 0)]_vars

\* the kept connection is stale, the database is reachable
StaleStored == srv.stored # None /\ ~Live(srv.stored[1]) /\ dbUp /\ srv.connection_string

\* C12: in the single-connection variants, when the kept connection fails the
\* probe at the start of a request and the database is reachable, the kept
\* connection is replaced by a newly opened one and the statement of the
\* request runs on the new one: a statement that passes the checks and has a
\* result set is answered with success.
C12_StaleConnectionReplaced ==
    [][(CallStep /\ variant \in SingleConnectionVariants /\ StaleStored)
          => /\ srv'.stored = Some(dbEpoch)
             /\ trace'.executed[1] = "SELECT 1"
             /\ ((req'.outcome.kind = "rows" /\ Len(trace'.executed) = 2) => resp'.success)]_vars

\* a request after an outage, answered on a connection opened after the probe
C12_Witness ==
    /\ Returned /\ variant = "por_http"
    /\ dbUp /\ dbEpoch = 1 /\ srv.stored = Some(1)
    /\ trace.executed = <<"SELECT 1", "select name from customer">>
    /\ resp.success /\ resp.row_count = 2

(***************************************************************************)
(* SpecPool: the connection pool under any sequence of get_connection and  *)
(* close_connection calls                                                  *)
(*                                                                         *)
(* Callers of the server object take connections with get_connection and   *)
(* give them back with close_connection in any order, several at a time;   *)
(* execute_sql and the other operations that use the pool run in between.  *)
(* held counts, per epoch of the database, the connections taken and not   *)
(* yet given back.  A call is one step, except for the sleeps of           *)
(* setup_connection in p21_http_server (pc "waiting1", "waiting2").        *)
(***************************************************************************)
MaxHeld == 4

PoolVariants == {"p21_mcp", "debug", "p21_http"}

Epochs == 0..MaxOutages

NoneHeld == [e \in Epochs |-> 0]

RECURSIVE SumTo(_, _)
SumTo(f, e) == IF e < 0 THEN 0 ELSE f[e] + SumTo(f, e - 1)

HeldCount == SumTo(held, MaxOutages)

\* a call: its name, the length of the pool when it was made, whether it closed conn
NoPoolCall == [op |-> "none", before |-> 0, closed |-> FALSE]

PoolCall(op) == [op |-> op, before |-> Len(srv.pool), closed |-> FALSE]

\* get_connection() of the module
GetConnection(v, s) ==
    IF v = "p21_http" THEN PlainGetConnection(s) ELSE PooledGetConnection(s)

\* the statements execute_sql is called with while connections are held
PoolArguments ==
    { [sql_query |-> Some("select name from customer"), has_limit |-> FALSE, limit |-> None] }

PoolOutcomes == { Rows(1, "str"), Failing("exec_error") }

\* the read_table_column calls made while connections are held
PoolReadArguments ==
    { [table_name |-> t, column_name |-> Some("name"), where_clause |-> None,
       has_limit |-> FALSE, limit |-> None] : t \in {None, Some("customer")} }

PoolCatalogues == { Failing("exec_error"), Catalogue(<<"customer">>, <<TRUE>>) }

InitPool ==
    /\ variant \in PoolVariants
    /\ dbUp = TRUE
    /\ dbEpoch = 0
    /\ srv \in {Constructed, Started(variant)}
    /\ req = NoRequest
    /\ resp = NoResult
    /\ trace = Trace(<<>>, "", FALSE)
    /\ pc = "idle"
    /\ held = NoneHeld
    /\ poolCall = NoPoolCall
    /\ GeneratorIdle
    /\ PatchIdle
    /\ HttpIdle
    /\ ToolIdle
    /\ RebuildIdle

\* the call goes into the first sleep of setup_connection
PoolCallWaits(op) ==
    /\ srv' = InSetup(srv)
    /\ poolCall' = PoolCall(op)
    /\ pc' = "waiting1"
    /\ UNCHANGED held

\* conn = get_connection(); the caller keeps conn
Taken(g) ==
    /\ srv' = g.srv
    /\ held' = IF g.raised = "" THEN [held EXCEPT ![g.conn] = @ + 1] ELSE held

GetConnectionCall ==
    /\ pc = "idle"
    /\ HeldCount < MaxHeld
    /\ IF EntersSetup(variant, srv) THEN PoolCallWaits("get_connection")
       ELSE /\ Taken(GetConnection(variant, srv))
            /\ poolCall' = PoolCall("get_connection")
            /\ UNCHANGED pc
    /\ UNCHANGED <<variant, dbUp, dbEpoch, req, resp, trace>>
    /\ UNCHANGED <<genVars, patchVars, httpVars, toolVars, rebuildVars>>

\* close_connection(conn) on a connection the caller holds
CloseConnectionCall ==
    /\ pc = "idle"
    /\ \E conn \in Epochs :
          /\ held[conn] > 0
          /\ srv' = CloseConnection(srv, conn)
          /\ held' = [held EXCEPT ![conn] = @ - 1]
          /\ poolCall' = [op |-> "close_connection", before |-> Len(srv.pool),
                          closed |-> ConnectionClosed(srv, conn)]
    /\ UNCHANGED <<variant, dbUp, dbEpoch, req, resp, trace, pc>>
    /\ UNCHANGED <<genVars, patchVars, httpVars, toolVars, rebuildVars>>

\* a tool operation: execute_sql(sql_query), whose result this caller drops
PoolExecuteSql ==
    /\ pc = "idle"
    /\ \E arguments \in PoolArguments : \E outcome \in PoolOutcomes :
          LET limit == LimitArgument(variant, arguments)
              what == ExecuteSql(variant, srv, arguments.sql_query, limit, outcome)
          IN  IF EntersSetup(variant, srv) /\ ReachesConnection(arguments.sql_query)
              THEN PoolCallWaits("execute_sql")
              ELSE /\ srv' = what.srv
                   /\ poolCall' = PoolCall("execute_sql")
                   /\ UNCHANGED <<pc, held>>
    /\ UNCHANGED <<variant, dbUp, dbEpoch, req, resp, trace>>
    /\ UNCHANGED <<genVars, patchVars, httpVars, toolVars, rebuildVars>>

\* p21_mcp_server: get_tables(), as list_tables and get_data_dictionary call it
PoolGetTables ==
    /\ pc = "idle"
    /\ variant = "p21_mcp"
    /\ \E outcome \in PoolCatalogues : srv' = GetTables(srv, outcome).srv
    /\ poolCall' = PoolCall("get_tables")
    /\ UNCHANGED <<variant, dbUp, dbEpoch, req, resp, trace, pc, held>>
    /\ UNCHANGED <<genVars, patchVars, httpVars, toolVars, rebuildVars>>

\* p21_mcp_server: get_table_schema(table_name)
PoolGetTableSchema ==
    /\ pc = "idle"
    /\ variant = "p21_mcp"
    /\ \E taken \in BOOLEAN : srv' = GetTableSchema(srv, "customer", taken).srv
    /\ poolCall' = PoolCall("get_table_schema")
    /\ UNCHANGED <<variant, dbUp, dbEpoch, req, resp, trace, pc, held>>
    /\ UNCHANGED <<genVars, patchVars, httpVars, toolVars, rebuildVars>>

\* debug_server: read_table_column(table_name, column_name, where_clause, limit)
PoolReadTableColumn ==
    /\ pc = "idle"
    /\ variant = "debug"
    /\ \E arguments \in PoolReadArguments : \E outcome \in PoolOutcomes :
          srv' = ReadTableColumn(variant, srv, arguments, outcome).srv
    /\ poolCall' = PoolCall("read_table_column")
    /\ UNCHANGED <<variant, dbUp, dbEpoch, req, resp, trace, pc, held>>
    /\ UNCHANGED <<genVars, patchVars, httpVars, toolVars, rebuildVars>>

\* time.sleep(1) returns and the waiting call of p21_http_server runs to its end
PoolCallResumes ==
    /\ Waiting
    /\ dbUp \/ pc = "waiting2"
    /\ IF poolCall.op = "get_connection" THEN Taken(GetConnection(variant, srv))
       ELSE /\ \E arguments \in PoolArguments : \E outcome \in PoolOutcomes :
                  srv' = ExecuteSql(variant, srv, arguments.sql_query,
                                    LimitArgument(variant, arguments), outcome).srv
            /\ UNCHANGED held
    /\ pc' = "idle"
    /\ UNCHANGED <<variant, dbUp, dbEpoch, req, resp, trace, poolCall>>
    /\ UNCHANGED <<genVars, patchVars, httpVars, toolVars, rebuildVars>>

NextPool ==
    \/ GetConnectionCall
    \/ CloseConnectionCall
    \/ PoolExecuteSql
    \/ PoolGetTables
    \/ PoolGetTableSchema
    \/ PoolReadTableColumn
    \/ SetupRetryFails
    \/ PoolCallResumes
    \/ DbGoesDown
    \/ DbComesUp

SpecPool == InitPool /\ [][NextPool]_vars

\* C13: whatever the sequence of get_connection, close_connection and
\* execute_sql calls, the pool never holds more than max_pool_size (3)
\* connections, and a connection given back while the pool is full is closed
\* and not stored.
C13_PoolBounded ==
    /\ Len(srv.pool) <= max_pool_size
    /\ (poolCall.op = "close_connection" /\ poolCall.before = max_pool_size)
          => (poolCall.closed /\ Len(srv.pool) = max_pool_size)
    /\ (poolCall.op = "close_connection" /\ poolCall.before < max_pool_size)
          => (~poolCall.closed /\ Len(srv.pool) = poolCall.before + 1)

\* a fourth connection has been given back to a full pool
C13_Witness ==
    /\ variant = "p21_mcp"
    /\ poolCall.op = "close_connection" /\ poolCall.before = max_pool_size
    /\ poolCall.closed
    /\ Len(srv.pool) = max_pool_size

(***************************************************************************)
(* The patch scripts                                                       *)
(*                                                                         *)
(* A data file is [kind, items]: kind "array" with the records in file     *)
(* order, "invalid" for a text json.load rejects, and for a JSON value     *)
(* that is not an array "empty_object" ({}), "object" (an object with      *)
(* keys), "empty_string" (""), "string" (a string with characters) or      *)
(* "scalar" (a number, true, false or null).  A record is a function from  *)
(* its keys to their values; an array element that is not a JSON object is *)
(* [scalar |-> v].                                                         *)
(* A run of a script yields [raised, items, written]: the exception that   *)
(* ended it ("" for none), the records as the script left them, and        *)
(* whether the script wrote the file.                                      *)
(***************************************************************************)
IsDict(item) == "scalar" \notin DOMAIN item

Has(item, key) == key \in DOMAIN item

\* item[key] = value
SetKey(item, key, value) ==
    [k \in DOMAIN item \cup {key} |-> IF k = key THEN value ELSE item[k]]

\* the longest run of digits at the start of s: what (\d+) matches there
RECURSIVE DigitsPrefix(_)
DigitsPrefix(s) ==
    IF s # "" /\ IndexIn(Digits, Chr(s, 1)) > 0
    THEN Chr(s, 1) \o DigitsPrefix(Tail(s))
    ELSE ""

\* the first exception of a run over the items, "" when no item raises
FirstRaised(results) ==
    IF \E i \in 1..Len(results) : results[i].raised # ""
    THEN results[CHOOSE i \in 1..Len(results) :
                    /\ results[i].raised # ""
                    /\ \A j \in 1..(i - 1) : results[j].raised = ""].raised
    ELSE ""

\* the exception of json.load / of the first use of data, by kind of file
LoadError(f) ==
    CASE f.kind = "invalid" -> "JSONDecodeError"
      [] f.kind = "absent" -> "FileNotFoundError"
      [] OTHER -> ""

Unwritten(f, exc) == [raised |-> exc, items |-> f.items, written |-> FALSE]

\* a JSON value that is not an array under `for entry in data` with entry[key]
\* in the body: {} and "" give no iteration, the keys of an object and the
\* characters of a string are strings and cannot be indexed by a key, a number,
\* a boolean or null cannot be iterated
LoopError(f) == IF f.kind \in {"empty_object", "empty_string"} THEN "" ELSE "TypeError"

\* a JSON value that is not an array under data[0][key]: an object has no key 0,
\* "" has no character 0, a character cannot be indexed by a key, a number, a
\* boolean or null cannot be indexed
IndexError0(f) ==
    CASE f.kind \in {"empty_object", "object"} -> "KeyError"
      [] f.kind = "empty_string" -> "IndexError"
      [] OTHER -> "TypeError"

\* the run of a script whose loop makes no iteration: the value is written back
WrittenBack(f) == [raised |-> "", items |-> f.items, written |-> TRUE]

(***************************************************************************)
(* update_customer_metrics.py                                              *)
(***************************************************************************)
\* re.match(r'current_month-(\d+)', filter_value): group(1), "" when no match
MonthOffsetMatch(filter_value) ==
    IF StartsWith(filter_value, "current_month-")
    THEN DigitsPrefix(SubSeq(filter_value, Len("current_month-") + 1, Len(filter_value)))
    ELSE ""

NewCustomersSql(month_offset) ==
    "SELECT COUNT(DISTINCT customer_uid) AS new_customers_m" \o month_offset \o
    " FROM customer WHERE date_acct_opened IS NOT NULL AND date_acct_opened >= DATEFR" \o
    "OMPARTS(YEAR(DATEADD(month,-" \o month_offset \o ",GETDATE())), MONTH(DATEADD(month,-" \o
    month_offset \o
    ",GETDATE())), 1) AND date_acct_opened <  DATEFROMPARTS(YEAR(DATEADD(month,-" \o
    IntToStr(NatFromStr(month_offset) - 1) \o ",GETDATE())), MONTH(DATEADD(month,-" \o
    IntToStr(NatFromStr(month_offset) - 1) \o ",GETDATE())), 1);"

ProspectsSql(month_offset) ==
    "SELECT COUNT(*) AS prospects FROM customer AS c WHERE CAST(c.date_acct_opened AS" \o
    " date) >= DATEFROMPARTS(YEAR(DATEADD(month,-" \o month_offset \o
    ",GETDATE())), MONTH(DATEADD(month,-" \o month_offset \o
    ",GETDATE())), 1) AND CAST(c.date_acct_opened AS date) < DATEFROMPARTS(YEAR(DATEA" \o
    "DD(month," \o IntToStr(NatFromStr(month_offset) - 1) \o
    ",GETDATE())), MONTH(DATEADD(month," \o IntToStr(NatFromStr(month_offset) - 1) \o
    ",GETDATE())), 1) AND NOT EXISTS (SELECT 1 FROM oe_hdr AS h WHERE h.customer_id =" \o
    " c.customer_id);"

NewProspectsSql(month_offset) ==
    "SELECT COUNT(*) AS new_prospects_m" \o month_offset \o
    " FROM customer AS c WHERE CAST(c.date_acct_opened AS date) >= DATEFROMPARTS(YEAR" \o
    "(DATEADD(month,-" \o month_offset \o ",GETDATE())), MONTH(DATEADD(month,-" \o
    month_offset \o
    ",GETDATE())), 1) AND CAST(c.date_acct_opened AS date) < DATEFROMPARTS(YEAR(DATEA" \o
    "DD(month," \o IntToStr(NatFromStr(month_offset) - 1) \o
    ",GETDATE())), MONTH(DATEADD(month," \o IntToStr(NatFromStr(month_offset) - 1) \o
    ",GETDATE())), 1) AND NOT EXISTS (SELECT 1 FROM oe_hdr AS h WHERE h.customer_id =" \o
    " c.customer_id);"

\* the renaming of a "Retained" entry
RenameRetained(entry) ==
    SetKey(SetKey(SetKey(entry,
        "variableName", Replace(entry["variableName"], "Customer Retained Customers", "Prospects")),
        "dataPoint", "prospects"),
        "valueColumn", "prospects")

\* the body of the loop for one entry
UpdateEntry(entry) ==
    IF ~IsDict(entry) THEN [raised |-> "TypeError", entry |-> entry]
    ELSE IF ~Has(entry, "id") \/ ~Has(entry, "filterValue")
    THEN [raised |-> "KeyError", entry |-> entry]
    ELSE LET month_offset == MonthOffsetMatch(entry["filterValue"])
         IN  IF month_offset = "" THEN [raised |-> "", entry |-> entry]
             ELSE IF ~Has(entry, "variableName") THEN [raised |-> "KeyError", entry |-> entry]
             ELSE LET variable_name == entry["variableName"]
                  IN  IF Contains(variable_name, "New Customers")
                      THEN [raised |-> "",
                            entry |-> SetKey(entry, "productionSqlExpression",
                                             NewCustomersSql(month_offset))]
                      ELSE IF Contains(variable_name, "Retained")
                              \/ Contains(variable_name, "Prospects")
                      THEN [raised |-> "",
                            entry |-> SetKey(IF Contains(variable_name, "Retained")
                                             THEN RenameRetained(entry) ELSE entry,
                                             "productionSqlExpression",
                                             ProspectsSql(month_offset))]
                      ELSE IF Contains(variable_name, "New Prospects")
                      THEN [raised |-> "",
                            entry |-> SetKey(entry, "productionSqlExpression",
                                             NewProspectsSql(month_offset))]
                      ELSE [raised |-> "", entry |-> entry]

\* update_customer_metrics()
update_customer_metrics(f) ==
    IF LoadError(f) # "" THEN Unwritten(f, LoadError(f))
    ELSE IF f.kind # "array"
    THEN IF LoopError(f) # "" THEN Unwritten(f, LoopError(f)) ELSE WrittenBack(f)
    ELSE LET results == [i \in 1..Len(f.items) |-> UpdateEntry(f.items[i])]
         IN  IF FirstRaised(results) # "" THEN Unwritten(f, FirstRaised(results))
             ELSE [raised |-> "", items |-> [i \in 1..Len(f.items) |-> results[i].entry],
                   written |-> TRUE]

(***************************************************************************)
(* fix_production_mode.py                                                  *)
(***************************************************************************)
\* a slip in the test of the key: every object gets prodValue = null
NeedsProdValueAlways(item) == IsDict(item)

\* isinstance(item, dict) and 'prodValue' not in item
NeedsProdValue(item) == IsDict(item) /\ ~Has(item, "prodValue")

\* add_prod_value_to_file(filepath); every exception is caught and reported
add_prod_value_to_file(f) ==
    IF LoadError(f) # "" \/ f.kind # "array" THEN Unwritten(f, "")
    ELSE LET changes_made == Cardinality({i \in 1..Len(f.items) : NeedsProdValue(f.items[i])})
         IN  [raised |-> "",
              items |-> [i \in 1..Len(f.items) |->
                            IF NeedsProdValue(f.items[i])
                            THEN SetKey(f.items[i], "prodValue", None)
                            ELSE f.items[i]],
              written |-> changes_made > 0]

(***************************************************************************)
(* fix_first_12_ids.py                                                     *)
(***************************************************************************)
\* month_mapping[id]
month_mapping(id) == 11 - ((id - 1) \div 2)

RentalValueSql(month, offset, next_offset) ==
    "SELECT SUM(il.extended_price) AS RentalValue_Month" \o IntToStr(month) \o
    " FROM oe_hdr oh JOIN invoice_line il ON il.order_no = oh.order_no JOIN invoice_h" \o
    "dr ih ON ih.invoice_no = il.invoice_no WHERE oh.rental_billing_flag = 'U' AND ih" \o
    ".invoice_date >= DATEFROMPARTS( YEAR(DATEADD(month, " \o IntToStr(offset) \o
    ", GETDATE())), MONTH(DATEADD(month, " \o IntToStr(offset) \o
    ", GETDATE())), 1 ) AND ih.invoice_date < DATEFROMPARTS( YEAR(DATEADD(month, " \o
    IntToStr(next_offset) \o ", GETDATE())), MONTH(DATEADD(month, " \o IntToStr(next_offset) \o
    ", GETDATE())), 1 );"

RentalCountSql(month, offset, next_offset) ==
    "SELECT COUNT(DISTINCT oh.order_no) AS NewRentalCount_Month" \o IntToStr(month) \o
    " FROM oe_hdr oh WHERE oh.rental_billing_flag = 'U' AND oh.order_date >= DATEFROM" \o
    "PARTS( YEAR(DATEADD(month, " \o IntToStr(offset) \o
    ", GETDATE())), MONTH(DATEADD(month, " \o IntToStr(offset) \o
    ", GETDATE())), 1 ) AND oh.order_date < DATEFROMPARTS( YEAR(DATEADD(month, " \o
    IntToStr(next_offset) \o ", GETDATE())), MONTH(DATEADD(month, " \o IntToStr(next_offset) \o
    ", GETDATE())), 1 );"

\* new_sql of the loop for id
NewSql(id) ==
    LET month == month_mapping(id)
        offset == 0 - month
        next_offset == offset + 1
    IN  IF id % 2 = 1 THEN RentalValueSql(month, offset, next_offset)
        ELSE RentalCountSql(month, offset, next_offset)

\* item_idx = id - 1; item = data[item_idx]
ItemIndex(data, id) == IF id <= Len(data) THEN id ELSE 0

\* the loop body for id on the item at position idx (0: data[item_idx] does not exist)
FixItem(data, id) ==
    LET idx == ItemIndex(data, id)
    IN  IF idx = 0 THEN [raised |-> "IndexError", at |-> 0, item |-> <<>>]
        ELSE IF ~IsDict(data[idx]) THEN [raised |-> "TypeError", at |-> idx, item |-> data[idx]]
        ELSE IF ~Has(data[idx], "productionSqlExpression")
        THEN [raised |-> "KeyError", at |-> idx, item |-> data[idx]]
        ELSE [raised |-> "", at |-> idx,
              item |-> SetKey(data[idx], "productionSqlExpression", NewSql(id))]

\* fix_first_12()
fix_first_12(f) ==
    IF LoadError(f) # "" THEN Unwritten(f, LoadError(f))
    ELSE IF f.kind # "array" THEN Unwritten(f, IndexError0(f))
    ELSE LET results == [id \in 1..12 |-> FixItem(f.items, id)]
         IN  IF FirstRaised(results) # "" THEN Unwritten(f, FirstRaised(results))
             ELSE [raised |-> "",
                   items |-> [i \in 1..Len(f.items) |->
                                 IF \E id \in 1..12 : results[id].at = i
                                 THEN results[CHOOSE id \in 1..12 : results[id].at = i].item
                                 ELSE f.items[i]],
                   written |-> TRUE]

(***************************************************************************)
(* update_por_sql.py                                                       *)
(***************************************************************************)
\* the position of the first occurrence of sub in s (0: none)
Find(s, sub) ==
    IF Contains(s, sub)
    THEN CHOOSE i \in 1..(Len(s) - Len(sub) + 1) :
            /\ SubSeq(s, i, i + Len(sub) - 1) = sub
            /\ \A j \in 1..(i - 1) : SubSeq(s, j, j + Len(sub) - 1) # sub
    ELSE 0

\* re.search(r'current_month-?(\d+)?', filter_value): [found, number], number
\* being group(1) ("" when the group did not take part)
CurrentMonthSearch(filter_value) ==
    LET at == Find(filter_value, "current_month")
        rest == SubSeq(filter_value, at + Len("current_month"), Len(filter_value))
    IN  IF at = 0 THEN [found |-> FALSE, number |-> ""]
        ELSE [found |-> TRUE,
              number |-> IF StartsWith(rest, "-") THEN DigitsPrefix(Tail(rest))
                         ELSE DigitsPrefix(rest)]

\* template_sql.format(start_offset=..., end_offset=..., offset=alias_offset)
TemplateSql(alias_offset, start_offset, end_offset) ==
    "SELECT SUM(il.extended_price) AS RentalValue_Month" \o alias_offset \o
    " FROM oe_hdr oh JOIN invoice_line il ON il.order_no = oh.order_no JOIN invoice_h" \o
    "dr ih ON ih.invoice_no = il.invoice_no WHERE oh.rental_billing_flag = 'U' AND ih" \o
    ".invoice_date >= DATEFROMPARTS( YEAR(DATEADD(month, " \o IntToStr(start_offset) \o
    ", GETDATE())), MONTH(DATEADD(month, " \o IntToStr(start_offset) \o
    ", GETDATE())), 1 ) AND ih.invoice_date < DATEFROMPARTS( YEAR(DATEADD(month, " \o
    IntToStr(end_offset) \o ", GETDATE())), MONTH(DATEADD(month, " \o IntToStr(end_offset) \o
    ", GETDATE())), 1 );"

\* a slip in the test of the id: every record is taken for a P21 entry
IsP21EntryAlways(id) == TRUE

\* item['id'] % 2 == 1
IsP21Entry(id) == id % 2 = 1

\* the loop body for one item
UpdateItem(item) ==
    IF ~IsDict(item) THEN [raised |-> "TypeError", entry |-> item]
    ELSE IF ~Has(item, "id") THEN [raised |-> "KeyError", entry |-> item]
    ELSE IF ~IsP21Entry(item["id"]) THEN [raised |-> "", entry |-> item]
    ELSE IF ~Has(item, "filterValue") THEN [raised |-> "KeyError", entry |-> item]
    ELSE LET match == CurrentMonthSearch(item["filterValue"])
         IN  IF ~match.found THEN [raised |-> "", entry |-> item]
             ELSE IF ~Has(item, "productionSqlExpression")
             THEN [raised |-> "KeyError", entry |-> item]
             ELSE LET offset == NatFromStr(match.number)
                      new_sql == IF match.number # ""
                                 THEN TemplateSql(IntToStr(offset), 0 - offset, 0 - offset + 1)
                                 ELSE TemplateSql("", 0, 1)
                  IN  [raised |-> "",
                       entry |-> SetKey(item, "productionSqlExpression", new_sql)]

\* update_p21_sql()
update_p21_sql(f) ==
    IF LoadError(f) # "" THEN Unwritten(f, LoadError(f))
    ELSE IF f.kind # "array"
    THEN IF LoopError(f) # "" THEN Unwritten(f, LoopError(f)) ELSE WrittenBack(f)
    ELSE LET results == [i \in 1..Len(f.items) |-> UpdateItem(f.items[i])]
         IN  IF FirstRaised(results) # "" THEN Unwritten(f, FirstRaised(results))
             ELSE [raised |-> "", items |-> [i \in 1..Len(f.items) |-> results[i].entry],
                   written |-> TRUE]

(***************************************************************************)
(* SpecPatch: a patch script run, and run again, on its data file          *)
(***************************************************************************)
MaxRecords == 2
MaxPatchRuns == 2
MaxHistorical == 13

Scripts == {"update_customer_metrics", "fix_production_mode", "fix_first_12", "update_p21_sql"}

\* a record of a dashboard data file
Entry(id, variableName, dataPoint, filterValue) ==
    [id |-> id, serverName |-> "P21", variableName |-> variableName,
     dataPoint |-> dataPoint, valueColumn |-> dataPoint, filterValue |-> filterValue,
     productionSqlExpression |-> "SELECT 0", value |-> 25]

\* item without key
DelKey(item, key) == [k \in DOMAIN item \ {key} |-> item[k]]

CustomerEntries ==
    { Entry(141, "Customer New Customers", "new_customers", "current_month-11"),
      Entry(142, "Customer Retained Customers", "retained_customers", "current_month-11"),
      Entry(143, "Prospects", "prospects", "current_month-0"),
      Entry(144, "Customer Retained Customers", "retained_customers", "last_quarter"),
      Entry(145, "Total Orders", "orders", "current_month-1"),
      Entry(147, "Retained Accounts", "retained_accounts", "current_month-3rd"),
      DelKey(Entry(146, "Customer New Customers", "new_customers", ""), "filterValue") }

ProdValueItems ==
    { Entry(1, "Rental Value", "rental_value", "current_month-11"),
      SetKey(Entry(2, "Rental Count", "rental_count", "current_month-11"), "prodValue", None),
      SetKey(Entry(3, "Rental Value", "rental_value", "current_month-10"), "prodValue", Some(5)),
      [scalar |-> 7] }

HistoricalIds == {1, 2}

HistoricalFilters == {"current_month-11", "current_month", "last_month", "current_month-"}

HistoricalEntries ==
    { Entry(id, "Rental", "rental", fv) : id \in HistoricalIds, fv \in HistoricalFilters }
    \cup { DelKey(Entry(3, "Rental", "rental", "current_month-2"), "productionSqlExpression") }

Orders == {"ascending", "descending", "shifted"}

\* the id of the record at position i of a file of n records
IdAt(order, n, i) ==
    CASE order = "ascending" -> i
      [] order = "descending" -> n + 1 - i
      [] order = "shifted" -> (i % n) + 1

\* historical-data.json with the ids 1..n in the given order; fixed: the records
\* 1..12 already carry the text the script writes
HistoricalFile(n, order, fixed) ==
    [kind |-> "array",
     items |-> [i \in 1..n |->
                   LET id == IdAt(order, n, i)
                       e == Entry(id, "Rental", "rental", "current_month-" \o IntToStr(month_mapping(id)))
                   IN  IF fixed /\ id <= 12 THEN SetKey(e, "productionSqlExpression", NewSql(id))
                       ELSE e]]

Arrays(S) == { [kind |-> "array", items |-> q] : q \in SeqsUpTo(S, MaxRecords) }

NotArrays ==
    { [kind |-> k, items |-> <<>>] :
        k \in {"invalid", "empty_object", "object", "empty_string", "string", "scalar"} }

\* the files a script is run on
PatchFiles(s) ==
    CASE s = "update_customer_metrics" -> Arrays(CustomerEntries) \cup NotArrays
      [] s = "fix_production_mode" -> Arrays(ProdValueItems) \cup NotArrays
      [] s = "fix_first_12" ->
            { HistoricalFile(n, order, fixed) :
                 n \in (MaxHistorical - 2)..MaxHistorical, order \in Orders, fixed \in BOOLEAN }
            \cup NotArrays
      [] s = "update_p21_sql" -> Arrays(HistoricalEntries) \cup NotArrays

\* the script body
RunScript(s, f) ==
    CASE s = "update_customer_metrics" -> update_customer_metrics(f)
      [] s = "fix_production_mode" -> add_prod_value_to_file(f)
      [] s = "fix_first_12" -> fix_first_12(f)
      [] s = "update_p21_sql" -> update_p21_sql(f)

NoRun == [raised |-> "", written |-> FALSE]

InitPatch ==
    /\ script \in Scripts
    /\ doc \in PatchFiles(script)
    /\ docHist = <<>>
    /\ patch = NoRun
    /\ patchRuns = 0
    /\ GeneratorIdle
    /\ WrapperIdle
    /\ PoolIdle
    /\ HttpIdle
    /\ ToolIdle
    /\ RebuildIdle

\* one run of the script: json.load, the loop, json.dump
Run ==
    /\ patchRuns < MaxPatchRuns
    /\ LET r == RunScript(script, doc)
       IN  /\ doc' = IF r.written THEN [doc EXCEPT !.items = r.items] ELSE doc
           /\ patch' = [raised |-> r.raised, written |-> r.written]
    /\ docHist' = Append(docHist, doc)
    /\ patchRuns' = patchRuns + 1
    /\ UNCHANGED script
    /\ UNCHANGED <<genVars, srvVars, poolVars, httpVars, toolVars, rebuildVars>>

\* python update_customer_metrics.py
RunUpdateCustomerMetrics == script = "update_customer_metrics" /\ Run

\* python fix_production_mode.py, for one file of its list
RunAddProdValue == script = "fix_production_mode" /\ Run

\* python fix_first_12_ids.py
RunFixFirst12 == script = "fix_first_12" /\ Run

\* python update_por_sql.py
RunUpdateP21Sql == script = "update_p21_sql" /\ Run

NextPatch == RunUpdateCustomerMetrics \/ RunAddProdValue \/ RunFixFirst12 \/ RunUpdateP21Sql

SpecPatch == InitPatch /\ [][NextPatch]_vars

(***************************************************************************)
(* The patch scripts' frame                                                *)
(***************************************************************************)
\* the last run of script s has ended
Ran(s) == script = s /\ patchRuns > 0

\* the file as the last run found it
Before == docHist[Len(docHist)]

\* records a and b have the same keys and differ at most in the keys of free
SameExcept(a, b, free) ==
    /\ DOMAIN a = DOMAIN b
    /\ \A k \in DOMAIN a \ free : a[k] = b[k]

\* files f and g have the same records in the same order, up to the keys of free
SameRecordsExcept(f, g, free) ==
    /\ f.kind = g.kind
    /\ Len(f.items) = Len(g.items)
    /\ \A i \in 1..Len(f.items) : SameExcept(f.items[i], g.items[i], free)

\* C14: update_customer_metrics changes no field other than
\* productionSqlExpression in any record of customer-metrics.json and keeps
\* the number and order of the records.
C14_OnlySqlChanged ==
    Ran("update_customer_metrics")
        => SameRecordsExcept(Before, doc, {"productionSqlExpression"})

\* C15: add_prod_value_to_file on a JSON array leaves every object record with
\* a prodValue key, null where the key was missing and the earlier value where
\* it was there, changes no other field, keeps the order of the records, and
\* a second application changes nothing and does not write the file.
C15_ProdValueAdded ==
    (Ran("fix_production_mode") /\ Before.kind = "array")
        => /\ doc.kind = "array"
           /\ Len(doc.items) = Len(Before.items)
           /\ \A i \in 1..Len(doc.items) :
                 LET a == Before.items[i]
                     b == doc.items[i]
                 IN  IF ~IsDict(a) THEN b = a
                     ELSE /\ DOMAIN b = DOMAIN a \cup {"prodValue"}
                          /\ \A k \in DOMAIN a : b[k] = a[k]
                          /\ ~Has(a, "prodValue") => b["prodValue"] = None
           /\ patchRuns = 2 => (doc = Before /\ ~patch.written)

\* a second application, after a first one that added the key to a record and
\* found it with a value on another
C15_Witness ==
    /\ Ran("fix_production_mode") /\ patchRuns = 2
    /\ ~patch.written
    /\ Len(docHist[1].items) = 2
    /\ IsDict(docHist[1].items[1]) /\ ~Has(docHist[1].items[1], "prodValue")
    /\ IsDict(docHist[1].items[2]) /\ Has(docHist[1].items[2], "prodValue")
    /\ docHist[1].items[2]["prodValue"] = Some(5)
    /\ doc.items[1]["prodValue"] = None
    /\ doc.items[2]["prodValue"] = Some(5)

\* C19: fix_first_12 rewrites productionSqlExpression of exactly the records
\* whose id is in 1..12, with the text for the month month_mapping gives that
\* id, and leaves every record with another id unchanged, whatever the order
\* of the records in historical-data.json.
C19_RewritesIds1To12 ==
    (Ran("fix_first_12") /\ patch.raised = "" /\ Before.kind = "array")
        => /\ Len(doc.items) = Len(Before.items)
           /\ \A i \in 1..Len(doc.items) :
                 LET a == Before.items[i]
                     b == doc.items[i]
                 IN  IF a["id"] \in 1..12
                     THEN b = SetKey(a, "productionSqlExpression", NewSql(a["id"]))
                     ELSE b = a

\* the record has an odd id and a filterValue that contains 'current_month'
P21Match(a) ==
    /\ IsDict(a) /\ Has(a, "id") /\ Has(a, "filterValue")
    /\ a["id"] % 2 = 1
    /\ Contains(a["filterValue"], "current_month")

\* C20: update_p21_sql changes only productionSqlExpression, and only on
\* records with an odd id whose filterValue contains 'current_month'; every
\* other record is unchanged in every field, and the number and order of the
\* records is kept.
C20_OnlyOddCurrentMonth ==
    Ran("update_p21_sql")
        => /\ SameRecordsExcept(Before, doc, {"productionSqlExpression"})
           /\ \A i \in 1..Len(doc.items) :
                 doc.items[i] # Before.items[i] => P21Match(Before.items[i])

\* a run that rewrote an odd record and left an even one with the same
\* filterValue as it was
C20_Witness ==
    /\ Ran("update_p21_sql") /\ patchRuns = 1 /\ patch.written
    /\ Len(doc.items) = 2
    /\ Before.items[1]["id"] = 1 /\ Before.items[2]["id"] = 2
    /\ Before.items[1]["filterValue"] = "current_month-11"
    /\ Before.items[2]["filterValue"] = "current_month-11"
    /\ doc.items[1]["productionSqlExpression"] # "SELECT 0"
    /\ doc.items[2] = Before.items[2]

(***************************************************************************)
(* The generator on a malformed catalog (SpecGen)                          *)
(***************************************************************************)
\* the file exists and is no JSON, or holds a record without an id
Malformed(f) ==
    \/ f.kind = "invalid"
    \/ f.kind = "json" /\ \E i \in 1..Len(f.items) : "id" \notin DOMAIN f.items[i]

\* C16: when hooks/dashboard-data.json exists but is malformed (no valid JSON,
\* or a record without an id), the generator stops with a diagnostic and does
\* not overwrite the file; it never drops the existing records and
\* regenerates the whole catalog.
C16_MalformedFailsFast == (runs = 1 /\ Malformed(prev)) => file = prev

(***************************************************************************)
(* SpecHttp: an HTTP server process from main() on                         *)
(*                                                                         *)
(* main() first sets the connection up (p21_http_server: setup_connection  *)
(* with its retries; debug_server: connect(); por_http_server:             *)
(* setup_connection) and exits when that raises, then serves: every POST   *)
(* is one call of do_POST.  setup is the record of the set-up: connects is *)
(* the number of pyodbc.connect calls made, failed how many of them        *)
(* raised, sleeps the number of time.sleep(1) calls that have returned,    *)
(* result is "running", "returned" or "raised".  http is the last POST:    *)
(* the request, the status lines sent for it in order, the body written    *)
(* last, and (before) the status lines of the POST before it.              *)
(***************************************************************************)
HttpVariants == {"p21_http", "por_http", "debug"}

\* max_retries = 3
max_retries == 3

\* a slip in the retry loop: only the first failure is followed by a sleep
SleepsAfterFirstOnly(attempt) == attempt < 1

\* if attempt < max_retries - 1: time.sleep(1), else: raise conn_error
SleepsAfter(attempt) == attempt < max_retries - 1

\* the tools do_POST dispatches on
KnownTools(v) ==
    CASE v = "p21_http" -> {"read_table_column", "get_data_dictionary", "execute_sql"}
      [] v = "por_http" -> {"read_table_column", "execute_sql"}
      [] v = "debug" -> {"execute_sql", "read_table_column"}

\* the arguments objects of the requests
HttpArguments ==
    {[sql_query |-> q, has_limit |-> FALSE, limit |-> None] :
        q \in {None, Some("select name from customer"), Some("DROP TABLE x")}}

NoArguments == [sql_query |-> None, has_limit |-> FALSE, limit |-> None]

\* the arguments objects of the read_table_column requests, and the one
\* arguments.get(...) reads from {}
HttpReadArguments ==
    {a \in ReadArguments : a.where_clause = None /\ (a.has_limit => a.limit = Some(2))}

NoReadArguments ==
    [table_name |-> None, column_name |-> None, where_clause |-> None,
     has_limit |-> FALSE, limit |-> None]

\* the arguments objects of a request for a tool other than execute_sql, by what
\* "arguments" is in the body
HttpToolArguments(name, kind) ==
    CASE name = "read_table_column" /\ kind = "object" -> HttpReadArguments
      [] name = "read_table_column" -> {NoReadArguments}
      [] kind = "object" -> DictionaryArguments
      [] OTHER -> {[table_pattern |-> None]}

\* what the database does with a SELECT of a request
HttpOutcomes ==
    {Rows(2, "int"), Rows(1, "decimal"), Rows(1, "date"), Failing("exec_error")}

\* a POST: the path, whether there is a Content-Length header, what the body
\* parses to ("object", "array", or "unparseable"), the text of a body that is
\* no object ("" for an object, which name and arguments describe), the value of
\* "name" ("" when the key is absent), whether "arguments" is an object, null or
\* absent, and the arguments object
HttpRequest(path, has_length, body, name, arguments_kind, arguments) ==
    [path |-> path, has_length |-> has_length, body |-> body,
     text |-> CASE body = "unparseable" -> "not json" [] body = "array" -> "[1, 2]"
                [] OTHER -> "",
     name |-> name, arguments_kind |-> arguments_kind, arguments |-> arguments]

\* the bodies that do not parse.  A text of the model is the body as the handler
\* reads it, post_data, with one character for each byte: a byte from 128 on is
\* the character of that code point
UnparseableBodies ==
    {"not json", "", "{", "  {name: 1}", " \n x", "ï»¿not json", "ï»¿{", "ÿ", "{Ã"}

\* the bytes from 128 to 255, in their order
HighBytes ==
    " ¡¢£¤¥¦§¨©ª«¬­®¯°±²³´µ¶·¸¹º»¼½¾¿ÀÁÂÃÄÅÆÇÈÉÊËÌÍÎÏÐÑÒÓÔÕÖ×ØÙÚÛÜÝÞßàáâãäåæçèéêëìíîïðñòóôõö÷øùúûüýþÿ"

\* the value of a byte from 128 on, and 0 for an ASCII byte
ByteOf(c) == IF IndexIn(HighBytes, c) > 0 THEN 127 + IndexIn(HighBytes, c) ELSE 0

HexDigits == "0123456789abcdef"

\* the continuation bytes the start byte b asks for: 0 after an ASCII byte, and
\* -1 for a byte that starts no character
Utf8Need(b) ==
    IF b < 128 THEN 0
    ELSE IF b \in 194..223 THEN 1
    ELSE IF b \in 224..239 THEN 2
    ELSE IF b \in 240..244 THEN 3
    ELSE -1

\* whether b can be the k-th byte after the start byte
Utf8Continues(start, k, b) ==
    IF k = 1 /\ start = 224 THEN b \in 160..191
    ELSE IF k = 1 /\ start = 237 THEN b \in 128..159
    ELSE IF k = 1 /\ start = 240 THEN b \in 144..191
    ELSE IF k = 1 /\ start = 244 THEN b \in 128..143
    ELSE b \in 128..191

\* how many of the n bytes after the start byte at i are there and continue it,
\* k of them being counted already
RECURSIVE Utf8Got(_, _, _, _)
Utf8Got(text, i, n, k) ==
    IF /\ k < n
       /\ i + k + 1 <= Len(text)
       /\ Utf8Continues(ByteOf(Chr(text, i)), k + 1, ByteOf(Chr(text, i + k + 1)))
    THEN Utf8Got(text, i, n, k + 1)
    ELSE k

\* str(e) of the UnicodeDecodeError of post_data.decode('utf-8') for the bytes
\* from i on, "" when they decode
RECURSIVE Utf8DecodeErrorFrom(_, _)
Utf8DecodeErrorFrom(text, i) ==
    IF i > Len(text) THEN ""
    ELSE LET b == ByteOf(Chr(text, i))
             n == Utf8Need(b)
             k == Utf8Got(text, i, n, 0)
             Cannot(why) ==
                 "'utf-8' codec can't decode "
                 \o (IF k = 0
                     THEN "byte 0x" \o Chr(HexDigits, (b \div 16) + 1)
                          \o Chr(HexDigits, (b % 16) + 1) \o " in position " \o IntToStr(i - 1)
                     ELSE "bytes in position " \o IntToStr(i - 1) \o "-"
                          \o IntToStr(i - 1 + k))
                 \o ": " \o why
         IN  IF n = 0 THEN Utf8DecodeErrorFrom(text, i + 1)
             ELSE IF n < 0 THEN Cannot("invalid start byte")
             ELSE IF k = n THEN Utf8DecodeErrorFrom(text, i + n + 1)
             ELSE IF i + k + 1 > Len(text) THEN Cannot("unexpected end of data")
             ELSE Cannot("invalid continuation byte")

Utf8DecodeError(text) == Utf8DecodeErrorFrom(text, 1)

\* the white space json.loads passes over
JsonSpace == {" ", "\t", "\n", "\r"}

\* the index of the first character from i on that is no white space
RECURSIVE JsonSkip(_, _)
JsonSkip(text, i) ==
    IF i <= Len(text) /\ SubSeq(text, i, i) \in JsonSpace THEN JsonSkip(text, i + 1) ELSE i

\* str(e) of the JSONDecodeError of json.loads for a body that decodes and
\* begins with a byte order mark, or does not begin a value, or opens an object
\* whose first key does not begin with a double quote; the line is one more
\* than the line feeds before the place and the column counts from the last
\* of them
JsonLoadsError(text) ==
    LET i == JsonSkip(text, 1)
        j == JsonSkip(text, i + 1)
        At(message, k) ==
            LET feeds == {m \in 1..(k - 1) : Chr(text, m) = "\n"}
                last == IF feeds = {} THEN 0 ELSE CHOOSE m \in feeds : \A o \in feeds : o <= m
            IN  message \o ": line " \o IntToStr(Cardinality(feeds) + 1)
                \o " column " \o IntToStr(k - last) \o " (char " \o IntToStr(k - 1) \o ")"
    IN  IF StartsWith(text, "ï»¿")
        THEN At("Unexpected UTF-8 BOM (decode using utf-8-sig)", 1)
        ELSE IF i <= Len(text) /\ SubSeq(text, i, i) = "{"
        THEN At("Expecting property name enclosed in double quotes", j)
        ELSE At("Expecting value", i)

NoHttpRequest == HttpRequest("", FALSE, "object", "", "absent", NoArguments)

HttpRequests(v) ==
    {HttpRequest("/", TRUE, "object", "execute_sql", "object", NoArguments),
     HttpRequest("/call_tool", FALSE, "object", "execute_sql", "object", NoArguments),
     HttpRequest("/call_tool", TRUE, "unparseable", "", "absent", NoArguments),
     HttpRequest("/call_tool", FALSE, "unparseable", "", "absent", NoArguments),
     HttpRequest("/call_tool", TRUE, "array", "", "absent", NoArguments),
     HttpRequest("/call_tool", TRUE, "object", "", "absent", NoArguments),
     HttpRequest("/call_tool", TRUE, "object", "execute_sql", "null", NoArguments),
     HttpRequest("/call_tool", TRUE, "object", "execute_sql", "absent", NoArguments)}
    \cup {HttpRequest("/call_tool", TRUE, "object", name, kind, NoArguments) :
            name \in {"no_such_tool", "get_data_dictionary"} \ KnownTools(v),
            kind \in {"object", "null", "absent"}}
    \cup {[HttpRequest("/call_tool", TRUE, "unparseable", "", "absent", NoArguments)
               EXCEPT !.text = text] : text \in UnparseableBodies}
    \cup {HttpRequest("/call_tool", TRUE, "object", "execute_sql", "object", a) :
            a \in HttpArguments}
    \cup UNION {{HttpRequest("/call_tool", TRUE, "object", name, kind, a) :
                    a \in HttpToolArguments(name, kind)} :
                 name \in OtherTools(v), kind \in {"object", "null", "absent"}}

\* the body written: the keys of the JSON object and the values of two of them
HttpBody(keys, success, error) == [keys |-> keys, success |-> success, error |-> error]

NoBody == HttpBody({}, FALSE, "")

NoExchange == [request |-> NoHttpRequest, sent |-> <<>>, body |-> NoBody, before |-> <<>>]

NoSetup == [connects |-> 0, failed |-> 0, sleeps |-> 0, result |-> "running"]

\* json.dumps(result): a Decimal or a date in the rows raises TypeError
Serialisable(result) == SerialiseError(ResultCells(result)) = ""

\* a slip in the except branch: the error object goes out under status 200
HandlerErrorAs200(v, sent, message, s) ==
    [sent |-> Append(sent, 200),
     body |-> HttpBody(IF v = "debug" THEN {"success", "error", "traceback"}
                       ELSE {"success", "error"},
                       FALSE, message),
     srv |-> s]

\* the except branch of do_POST: send_response(500) and the error object
HandlerError(v, sent, message, s) ==
    [sent |-> Append(sent, 500),
     body |-> HttpBody(IF v = "debug" THEN {"success", "error", "traceback"}
                       ELSE {"success", "error"},
                       FALSE, message),
     srv |-> s]

\* send_response(200) and json.dumps(result); debug_server dumps the result for
\* the log before it sends the status line
SendResult(v, result, s) ==
    IF Serialisable(result)
    THEN [sent |-> <<200>>, body |-> HttpBody(result.keys, result.success, result.error),
          srv |-> s]
    ELSE HandlerError(v, IF v = "debug" THEN <<>> ELSE <<200>>,
                      SerialiseError(ResultCells(result)), s)

\* json.dumps of the result of a tool other than execute_sql: read_table_column
\* hands on the values of the driver as they are
ToolSerialisable(result) == "data" \in result.keys => SerialiseError(result.data) = ""

SendToolResult(v, result, s) ==
    IF ToolSerialisable(result)
    THEN [sent |-> <<200>>, body |-> HttpBody(result.keys, result.success, result.error),
          srv |-> s]
    ELSE HandlerError(v, IF v = "debug" THEN <<>> ELSE <<200>>,
                      SerialiseError(result.data), s)

\* do_POST
DoPostResult(v, s, request, outcome) ==
    IF request.path # "/call_tool" THEN [sent |-> <<404>>, body |-> NoBody, srv |-> s]
    ELSE IF ~request.has_length
    THEN HandlerError(v, <<>>, "int() argument must be a string, a bytes-like object or a real number, not 'NoneType'", s)
    ELSE IF request.body = "unparseable"
    THEN HandlerError(v, <<>>, IF Utf8DecodeError(request.text) # ""
                               THEN Utf8DecodeError(request.text)
                               ELSE JsonLoadsError(request.text), s)
    ELSE IF request.body = "array"
    THEN HandlerError(v, <<>>, "'list' object has no attribute 'get'", s)
    ELSE IF request.name = "execute_sql"
    THEN IF request.arguments_kind = "null"
         THEN HandlerError(v, <<>>, "'NoneType' object has no attribute 'get'", s)
         ELSE LET Sends(what) ==
                      IF what.trace.escaped
                      THEN HandlerError(v, <<>>, Message(what.trace.raised), what.srv)
                      ELSE SendResult(v, what.resp, what.srv)
              IN  Sends(ExecuteSql(v, s, request.arguments.sql_query,
                                   LimitArgument(v, request.arguments), outcome))
    ELSE IF request.name \in OtherTools(v)
    THEN IF request.arguments_kind = "null"
         THEN HandlerError(v, <<>>, "'NoneType' object has no attribute 'get'", s)
         ELSE LET Sends(done) == SendToolResult(v, done.result, done.srv)
              IN  Sends(RunTool(v, s, request.name, request.arguments, outcome))
    ELSE SendResult(v, [NoResult EXCEPT !.keys = {"success", "error"},
                                        !.error = "Unknown tool: " \o
                                                  (IF request.name = "" THEN "None"
                                                   ELSE request.name)], s)

\* whether the request gets as far as execute_sql with a text
RunsStatement(request) ==
    /\ request.path = "/call_tool" /\ request.has_length /\ request.body = "object"
    /\ request.name = "execute_sql" /\ request.arguments_kind = "object"
    /\ request.arguments.sql_query # None

\* what the database does with the statement of the request, if it is given
\* one: a SELECT can have rows, and a command has no result set to fetch from
RequestOutcomes(v, request) ==
    IF /\ request.path = "/call_tool" /\ request.has_length /\ request.body = "object"
       /\ request.name \in OtherTools(v) /\ request.arguments_kind # "null"
    THEN ToolOutcomes(v, request.name, request.arguments)
    ELSE IF ~RunsStatement(request) THEN {Failing("exec_error")}
    ELSE IF request.arguments.sql_query[1] \in Commands
    THEN {Failing("exec_error"), Failing("fetch_error")}
    ELSE HttpOutcomes

InitHttp ==
    /\ variant \in HttpVariants
    /\ dbUp \in BOOLEAN
    /\ dbEpoch = 0
    /\ srv = Constructed
    /\ req = NoRequest
    /\ resp = NoResult
    /\ trace = Trace(<<>>, "", FALSE)
    /\ pc = "setup"
    /\ http = NoExchange
    /\ setup = NoSetup
    /\ GeneratorIdle
    /\ PoolIdle
    /\ PatchIdle
    /\ ToolIdle
    /\ RebuildIdle

\* p21_http_server: one pass of the retry loop of setup_connection, up to the
\* return, the sleep or the raise (on which main() exits).  main() sets
\* os.environ['P21_DSN'] = 'P21live' before it builds the server, so the
\* ValueError of setup_connection for an empty DSN is not raised on this path
SetupAttempt ==
    /\ pc = "setup"
    /\ variant = "p21_http"
    /\ LET attempt == setup.connects IN
       IF dbUp
       THEN /\ setup' = [setup EXCEPT !.connects = @ + 1, !.result = "returned"]
            /\ pc' = "idle"
       ELSE IF SleepsAfter(attempt)
       THEN /\ setup' = [setup EXCEPT !.connects = @ + 1, !.failed = @ + 1]
            /\ pc' = "sleeping"
       ELSE /\ setup' = [setup EXCEPT !.connects = @ + 1, !.failed = @ + 1,
                                      !.result = "raised"]
            /\ pc' = "exited"
    /\ srv' = [srv EXCEPT !.connection_string = TRUE]
    /\ UNCHANGED <<variant, dbUp, dbEpoch, req, resp, trace, http>>
    /\ UNCHANGED <<genVars, poolVars, patchVars, toolVars, rebuildVars>>

\* time.sleep(1) returns and the loop goes on to the next attempt
SetupSleep ==
    /\ pc = "sleeping"
    /\ setup' = [setup EXCEPT !.sleeps = @ + 1]
    /\ pc' = "setup"
    /\ UNCHANGED <<variant, dbUp, dbEpoch, srv, req, resp, trace, http>>
    /\ UNCHANGED <<genVars, poolVars, patchVars, toolVars, rebuildVars>>

\* debug_server: connect(); por_http_server: setup_connection(); main() exits
\* when it raises
StartupConnect ==
    /\ pc = "setup"
    /\ variant \in {"debug", "por_http"}
    /\ IF variant = "debug"
       THEN srv' = Connect(srv).srv
       ELSE srv' = [srv EXCEPT !.connection_string = TRUE,
                               !.stored = IF dbUp THEN Some(dbEpoch) ELSE None]
    /\ setup' = [setup EXCEPT !.connects = @ + 1,
                              !.failed = IF dbUp THEN @ ELSE @ + 1,
                              !.result = IF dbUp THEN "returned" ELSE "raised"]
    /\ pc' = IF dbUp THEN "idle" ELSE "exited"
    /\ UNCHANGED <<variant, dbUp, dbEpoch, req, resp, trace, http>>
    /\ UNCHANGED <<genVars, poolVars, patchVars, toolVars, rebuildVars>>

\* the database comes or goes while the server is still setting up
DbChangesAtStart ==
    /\ pc \in {"setup", "sleeping"}
    /\ dbUp' = ~dbUp
    /\ UNCHANGED <<variant, dbEpoch, srv, req, resp, trace, pc, http, setup>>
    /\ UNCHANGED <<genVars, poolVars, patchVars, toolVars, rebuildVars>>

\* serve_forever: one POST handled by do_POST
DoPost ==
    /\ pc = "idle"
    /\ \E request \in HttpRequests(variant) :
       \E outcome \in RequestOutcomes(variant, request) :
          LET Handled(done) ==
                  /\ http' = [request |-> request, sent |-> done.sent, body |-> done.body,
                              before |-> http.sent]
                  /\ srv' = done.srv
          IN  Handled(DoPostResult(variant, srv, request, outcome))
    /\ pc' = "idle"
    /\ UNCHANGED <<variant, dbUp, dbEpoch, req, resp, trace, setup>>
    /\ UNCHANGED <<genVars, poolVars, patchVars, toolVars, rebuildVars>>

NextHttp ==
    \/ SetupAttempt
    \/ SetupSleep
    \/ StartupConnect
    \/ DbChangesAtStart
    \/ DoPost
    \/ DbGoesDown
    \/ DbComesUp

SpecHttp == InitHttp /\ [][NextHttp]_vars

\* pyodbc.connect(..., timeout=10) and time.sleep(1) come back, so the set-up
\* steps are taken
SpecHttpFair ==
    SpecHttp /\ WF_vars(SetupAttempt) /\ WF_vars(SetupSleep) /\ WF_vars(StartupConnect)

(***************************************************************************)
(* The HTTP protocol and the connection set-up                             *)
(***************************************************************************)
Posted == http.sent # <<>>

CallTool == http.request.path = "/call_tool"

\* a body that parses to an object and names no tool the server has
UnknownToolRequest ==
    /\ CallTool /\ http.request.has_length /\ http.request.body = "object"
    /\ http.request.name \notin KnownTools(variant)

\* no Content-Length header, a body that does not parse, or null for the
\* arguments of a tool the server has
HandlerExceptionRequest ==
    /\ CallTool
    /\ \/ ~http.request.has_length
       \/ http.request.body = "unparseable"
       \/ /\ http.request.body = "object"
          /\ http.request.name \in KnownTools(variant)
          /\ http.request.arguments_kind = "null"

ErrorObject ==
    /\ {"success", "error"} \subseteq http.body.keys
    /\ ~http.body.success
    /\ http.body.error # ""

\* C17: in every HTTP variant a POST to /call_tool that names an unknown tool is
\* answered with status 200 and an object with success false and an error; one
\* whose handling raises (no Content-Length, unparseable body, null arguments)
\* is answered with status 500 and such an object; the server serves on after
\* either
C17_HttpStatuses ==
    Posted =>
       /\ UnknownToolRequest => (http.sent = <<200>> /\ ErrorObject)
       /\ HandlerExceptionRequest => (http.sent = <<500>> /\ ErrorObject)
       /\ pc = "idle"

\* an unknown tool answered with 200 right after a request answered with 500
C17_Witness ==
    /\ http.before = <<500>>
    /\ UnknownToolRequest
    /\ http.request.name = "no_such_tool"
    /\ http.sent = <<200>>
    /\ http.body.error = "Unknown tool: no_such_tool"
    /\ pc = "idle"

SetupOver == pc \notin {"setup", "sleeping"}

SetupCounts ==
    /\ setup.connects <= 3
    /\ setup.result = "returned" => (setup.connects = setup.failed + 1 /\ pc = "idle")
    /\ setup.sleeps = IF pc = "sleeping" THEN setup.failed - 1
                      ELSE IF setup.failed < 2 THEN setup.failed ELSE 2
    /\ setup.result = "raised" <=> setup.failed = 3

\* C18: setup_connection of p21_http_server makes at most 3 connection attempts,
\* returns right after the first that succeeds and makes none after it, sleeps
\* after each of the first two failures and not after the third, raises after
\* the third failure in a row, and always comes to an end
C18_SetupRetries ==
    /\ [](variant = "p21_http" => SetupCounts)
    /\ [][(variant = "p21_http" /\ setup.result # "running") => setup' = setup]_vars
    /\ <>SetupOver

\* three failed attempts with two sleeps between them, then the raise
C18_Witness ==
    /\ variant = "p21_http"
    /\ setup = [connects |-> 3, failed |-> 3, sleeps |-> 2, result |-> "raised"]
    /\ pc = "exited"

(***************************************************************************)
(* Validation before access, conversion, limit flag, read-only tools       *)
(***************************************************************************)
\* C24: in p21_mcp_server and epicore_p21_mcp a statement that fails the
\* SELECT-only or keyword check is answered with the validation error whether
\* or not the database is reachable, and no connection is acquired or opened
\* for it: nothing is executed and the connection state is as before the call.
C24_ValidationBeforeAccess ==
    [][(/\ CallStep
        /\ variant \in {"p21_mcp", "epicore"}
        /\ req'.arguments.sql_query # None
        /\ \/ ~StartsWithSelect(req'.arguments.sql_query[1])
           \/ HasDenyWord(req'.arguments.sql_query[1]))
          => /\ resp'.error = ValidationError(variant, req'.arguments.sql_query[1])
             /\ trace'.executed = <<>>
             /\ srv' = srv]_vars

P21Variants == {"p21_http", "p21_mcp", "epicore", "debug"}

\* the driver types float() accepts, and those int() accepts
FloatConvertible == {"int", "decimal", "float", "bool"}
IntConvertible == {"int", "decimal", "float", "bool"}

JsonPrimitive(t) ==
    IF t \in FloatConvertible THEN "float"
    ELSE IF t \in IntConvertible THEN "int"
    ELSE IF t = "none" THEN "none"
    ELSE "str"

\* C25: in the P21 execute_sql variants every cell of a successful result is a
\* float, an int, null or a string, chosen in this order from the driver value:
\* float if it converts to float, else int if it converts to int, else null for
\* NULL, else its string form; the value of an integer column comes back as a
\* float.
C25_CellsConverted ==
    (Returned /\ variant \in P21Variants /\ resp.success) =>
        \A i \in 1..Len(resp.data) :
            /\ resp.data[i].value.t \in {"float", "int", "none", "str"}
            /\ resp.data[i].value.t = JsonPrimitive(req.outcome.cell)
            /\ req.outcome.cell = "int" => resp.data[i].value.t = "float"

\* p21_mcp_server has returned the row of an integer column as a float
C25_Witness ==
    /\ Returned
    /\ variant = "p21_mcp"
    /\ req.outcome = Rows(1, "int")
    /\ resp.success
    /\ Len(resp.data) = 1
    /\ resp.data[1].value = [t |-> "float", v |-> 1]

\* C26: por_mcp's execute_sql flags limited true whenever the result set reaches
\* the limit: for every positive limit L and every executed query with N >= L
\* result rows the response carries exactly L rows and limited is true, N = L
\* included.
C26_PorMcpLimitedAtLimit ==
    (/\ Returned
     /\ variant = "por_mcp"
     /\ req.arguments.sql_query # None
     /\ PassedToExecute(SqlText)
     /\ trace.raised = ""
     /\ req.limit # None
     /\ req.limit[1] > 0
     /\ req.outcome.kind = "rows"
     /\ req.outcome.n >= req.limit[1])
    => (resp.success /\ Len(resp.data) = req.limit[1] /\ resp.limited)

(***************************************************************************)
(* The statements the tools send to the database                           *)
(***************************************************************************)
\* C27: no tool of any wrapper server sends a data-modifying statement to the
\* database: every statement passed to cursor.execute on behalf of a tool call
\* is a SELECT.
C27_OnlySelectExecuted ==
    /\ \A i \in 1..Len(trace.executed) : StartsWithSelect(trace.executed[i])
    /\ \A i \in 1..Len(tool.executed) : StartsWithSelect(tool.executed[i])

\* C29: for each POST the handlers of p21_http_server, por_http_server and
\* debug_server emit exactly one response status, 200, 404 or 500: a 500 is
\* never started after the 200 status and headers of the same request have
\* been sent, whatever values the tool result holds.
C29_OneStatusPerRequest ==
    Posted => (Len(http.sent) = 1 /\ http.sent[1] \in {200, 404, 500})

(***************************************************************************)
(* The generator's frame and the catalog's statements                      *)
(***************************************************************************)
\* an existing catalog: a JSON array of records that all carry an id
ExistingCatalog(f) ==
    f.kind = "json" /\ \A i \in 1..Len(f.items) : "id" \in DOMAIN f.items[i]

\* the record of the catalog that existing_dict holds for its id: the last one
LastWithId(f, j) == \A m \in (j + 1)..Len(f.items) : f.items[m].id # f.items[j].id

\* what a run builds when there is no existing file
FromTemplates == SortById(GenerateData(EmptyDict))

\* C23: for any existing catalog the generator emits exactly one record for each
\* id 1..174 in ascending order; an existing record with id in 1-73 or 165-174 is
\* emitted unchanged in place of the generated one, ids 74-164 are always built
\* from the templates whatever the catalog holds, and existing records with ids
\* outside 1..174 are dropped.
C23_PreservedAndRegenerated ==
    (runs >= 1 /\ ExistingCatalog(prev)) =>
        /\ Len(file.items) = 174
        /\ \A k \in 1..174 : file.items[k].id = k
        /\ \A j \in 1..Len(prev.items) :
              (/\ prev.items[j].id \in (1..73) \cup (165..174)
               /\ LastWithId(prev, j))
              => file.items[prev.items[j].id] = prev.items[j]
        /\ \A k \in 74..164 : file.items[k] = FromTemplates[k]
        /\ \A k \in ((1..73) \cup (165..174)) \ {prev.items[j].id : j \in 1..Len(prev.items)} :
              file.items[k] = FromTemplates[k]

\* a first run on a catalog holding a hand-edited record 1 and a hand-edited
\* record 74: the first is kept, the second replaced
C23_Witness ==
    /\ runs = 1
    /\ prev = [kind |-> "json", items |-> <<Edited(1, 7), Edited(74, 7)>>]
    /\ file.items[1] = Edited(1, 7)
    /\ file.items[74] # Edited(74, 7)
    /\ file.items[74] = PorOverviewEntry(0, 0)
    /\ Len(file.items) = 174

\* the checks of the P21 wrappers' execute_sql on the text of a statement
PassesP21Validation(sql_query) ==
    /\ IsSelect(SqlUpper(sql_query))
    /\ FirstDangerous(SqlUpper(sql_query)) = ""

\* C28: every productionSqlExpression the generator emits for serverName P21
\* passes the validation of the P21 wrappers: it starts with SELECT and its
\* upper-cased text contains none of DROP, DELETE, TRUNCATE, INSERT, UPDATE,
\* ALTER, CREATE.
C28_GeneratedSqlPassesValidation ==
    runs >= 1 =>
        \A k \in created :
            file.items[k].serverName = "P21"
            => PassesP21Validation(file.items[k].productionSqlExpression)

(***************************************************************************)
(* The window of a rewritten Customer Metrics statement                    *)
(***************************************************************************)
\* the texts of a date-window statement before and after its "<" comparison:
\* the lower bound (>=) and the upper bound (<)
LowerBoundText(sql) ==
    LET p == FindFrom(sql, "<", 1) IN IF p = 0 THEN sql ELSE SubSeq(sql, 1, p - 1)

UpperBoundText(sql) ==
    LET p == FindFrom(sql, "<", 1) IN IF p = 0 THEN "" ELSE SubSeq(sql, p + 1, Len(sql))

\* whether update_customer_metrics has rewritten the statement of the record:
\* re.match finds current_month- and digits at the start of the filterValue, and
\* the variableName contains the word of one of the branches (after the run a
\* name that held "Customer Retained Customers" holds "Prospects" in its place,
\* and any other name is as it was)
RewrittenCustomerRecord(item) ==
    /\ IsDict(item) /\ Has(item, "filterValue") /\ Has(item, "variableName")
    /\ MonthOffsetMatch(item.filterValue) # ""
    /\ \/ Contains(item.variableName, "New Customers")
       \/ Contains(item.variableName, "Retained")
       \/ Contains(item.variableName, "Prospects")

\* C21: every record update_customer_metrics rewrites, with filterValue
\* 'current_month-k' (k in 0..11), gets a statement that selects exactly one
\* calendar month: its lower date bound uses month offset -k and its upper
\* bound month offset -k+1, in the New Customers branch and in the
\* Prospects/Retained branch alike.
C21_OneCalendarMonth ==
    (script = "update_customer_metrics" /\ patchRuns >= 1 /\ patch.written) =>
        \A i \in 1..Len(doc.items) :
            (/\ RewrittenCustomerRecord(doc.items[i])
             /\ FilterOffset("current_month-", doc.items[i].filterValue) \in 0..11) =>
                LET k == FilterOffset("current_month-", doc.items[i].filterValue)
                    sql == doc.items[i].productionSqlExpression
                IN  /\ DateAddNowOffsets(LowerBoundText(sql), "month") = {0 - k}
                    /\ DateAddNowOffsets(UpperBoundText(sql), "month") = {1 - k}

(***************************************************************************)
(* SpecRebuild: rebuild_dashboard.py                                       *)
(*                                                                         *)
(* The script reads the source data file, groups its items by chartGroup,  *)
(* and for each of the ten expected ranges copies the group's source items *)
(* under renumbered ids and fills what is missing from its templates; the  *)
(* sorted list is written to hooks/dashboard-data.json.  source is the     *)
(* source data file, rebuilt what a run wrote and how it ended.  The texts *)
(* of the six templates of generate_missing_entry are those of the         *)
(* generator's loops for the same groups, so the entry builders above      *)
(* stand for them.                                                         *)
(***************************************************************************)
\* expected_ranges: (group, start_id, end_id, expected_count)
expected_ranges == <<
    <<"AR Aging", 1, 5, 5>>,
    <<"Accounts", 6, 41, 36>>,
    <<"Web Orders", 42, 65, 24>>,
    <<"Inventory", 66, 73, 8>>,
    <<"POR Overview", 74, 97, 24>>,
    <<"Daily Orders", 98, 104, 7>>,
    <<"Historical Data", 105, 140, 36>>,
    <<"Customer Metrics", 141, 164, 24>>,
    <<"Key Metrics", 165, 171, 7>>,
    <<"Site Distribution", 172, 174, 3>> >>

\* generate_missing_entry(entry_id, group_name): the entry, or None for a group
\* without a template
generate_missing_entry(entry_id, group_name) ==
    IF group_name = "POR Overview"
    THEN Some(PorOverviewEntry((entry_id - 74) \div 2, (entry_id - 74) % 2))
    ELSE IF group_name = "Daily Orders"
    THEN Some(DailyOrdersEntry(entry_id - 98))
    ELSE IF group_name = "Historical Data"
    THEN Some(HistoricalEntry((entry_id - 105) \div 3, (entry_id - 105) % 3))
    ELSE IF group_name = "Customer Metrics"
    THEN Some(CustomerMetricsEntry((entry_id - 141) \div 2, (entry_id - 141) % 2))
    ELSE IF group_name = "Web Orders"
    THEN Some(WebOrdersEntry((entry_id - 42) \div 2, (entry_id - 42) % 2))
    ELSE IF group_name = "Inventory" /\ entry_id - 66 < 8
    THEN Some(InventoryEntry(entry_id - 66))
    ELSE None

\* source_groups[group]: the source items of the group in the order of the file
SourceGroup(source_data, group) ==
    LET InGroup(item) == item.chartGroup = group IN SelectSeq(source_data, InGroup)

\* new_item = copy.deepcopy(item); new_item['id'] = start_id + i
CopyWithId(item, new_id) == SetKey(item, "id", new_id)

\* the entries generate_missing_entry gives for the ids lo..hi, those of None
\* left out
RECURSIVE MissingEntries(_, _, _)
MissingEntries(group_name, lo, hi) ==
    IF lo > hi THEN <<>>
    ELSE generate_missing_entry(lo, group_name) \o MissingEntries(group_name, lo + 1, hi)

\* one pass of the loop over expected_ranges: what it appends to complete_data
RangeEntries(source_data, range) ==
    LET group_name == range[1]
        start_id == range[2]
        end_id == range[3]
        expected_count == range[4]
        source_items == SourceGroup(source_data, group_name)
        items_added == Min(Len(source_items), expected_count)
    IN  IF Len(source_items) > 0
        THEN [i \in 1..items_added |-> CopyWithId(source_items[i], start_id + (i - 1))]
             \o MissingEntries(group_name, start_id + items_added, start_id + expected_count - 1)
        ELSE MissingEntries(group_name, start_id, end_id)

RECURSIVE CompleteData(_, _)
CompleteData(source_data, r) ==
    IF r > Len(expected_ranges) THEN <<>>
    ELSE RangeEntries(source_data, expected_ranges[r]) \o CompleteData(source_data, r + 1)

\* how a run ended and what it left in hooks/dashboard-data.json
RebuildResult(raised, written, items) ==
    [ran |-> TRUE, raised |-> raised, written |-> written, items |-> items]

NotRebuilt == [ran |-> FALSE, raised |-> "", written |-> FALSE, items |-> <<>>]

\* the script from open(source) to json.dump
rebuild_dashboard(f) ==
    IF f.kind = "absent" THEN RebuildResult("FileNotFoundError", FALSE, <<>>)
    ELSE IF f.kind = "invalid" THEN RebuildResult("JSONDecodeError", FALSE, <<>>)
    ELSE IF \E i \in 1..Len(f.items) : "chartGroup" \notin DOMAIN f.items[i]
    THEN RebuildResult("KeyError", FALSE, <<>>)
    ELSE RebuildResult("", TRUE, SortById(CompleteData(f.items, 1)))

(***************************************************************************)
(* The source data files of the runs                                       *)
(***************************************************************************)
MaxSource == 2

\* the catalog of 174 records, as the generator writes it
CompleteCatalog == FromTemplates

Reversed(q) == [i \in 1..Len(q) |-> q[Len(q) + 1 - i]]

Without(q, k) == [i \in 1..(Len(q) - 1) |-> IF i < k THEN q[i] ELSE q[i + 1]]

\* single records a short source file is made of
SourceItems ==
    { CompleteCatalog[1], CompleteCatalog[42], CompleteCatalog[43], CompleteCatalog[65],
      CompleteCatalog[74], CompleteCatalog[165], Edited(7, 7),
      [id |-> 3, value |-> 7] }

SourceFiles ==
    { [kind |-> "absent", items |-> <<>>], [kind |-> "invalid", items |-> <<>>] }
    \cup { [kind |-> "json", items |-> q] : q \in SeqsUpTo(SourceItems, MaxSource) }
    \cup { [kind |-> "json", items |-> q] :
             q \in { CompleteCatalog, Reversed(CompleteCatalog),
                     Without(CompleteCatalog, 1), Without(CompleteCatalog, 42),
                     Without(CompleteCatalog, 174),
                     CompleteCatalog \o <<CompleteCatalog[1], CompleteCatalog[42]>> } }

InitRebuild ==
    /\ source \in SourceFiles
    /\ rebuilt = NotRebuilt
    /\ GeneratorIdle
    /\ WrapperIdle
    /\ PoolIdle
    /\ PatchIdle
    /\ HttpIdle
    /\ ToolIdle

\* python rebuild_dashboard.py
RunRebuild ==
    /\ ~rebuilt.ran
    /\ rebuilt' = rebuild_dashboard(source)
    /\ UNCHANGED source
    /\ UNCHANGED <<genVars, srvVars, poolVars, patchVars, httpVars, toolVars>>

\* the file the last run wrote is made the source data file of the next run
OutputTakenAsSource ==
    /\ rebuilt.written
    /\ source.items # rebuilt.items
    /\ source' = [kind |-> "json", items |-> rebuilt.items]
    /\ rebuilt' = NotRebuilt
    /\ UNCHANGED <<genVars, srvVars, poolVars, patchVars, httpVars, toolVars>>

NextRebuild == RunRebuild \/ OutputTakenAsSource

SpecRebuild == InitRebuild /\ [][NextRebuild]_vars

(***************************************************************************)
(* Claims about rebuild_dashboard.py (checked under SpecRebuild)           *)
(***************************************************************************)
\* C22: for any source data file, rebuild_dashboard writes exactly 174 records
\* whose ids are exactly 1..174, each chart group holding its expected count.
C22_Writes174Records ==
    rebuilt.written =>
        /\ Len(rebuilt.items) = 174
        /\ \A k \in 1..174 : rebuilt.items[k].id = k
        /\ \A r \in 1..Len(expected_ranges) :
              Cardinality({i \in 1..Len(rebuilt.items) :
                              rebuilt.items[i].chartGroup = expected_ranges[r][1]})
              = expected_ranges[r][4]

\* the month-indexed groups of the rebuilt catalog: (group, first id, variables)
RebuildMonthGroups == << <<"Web Orders", 42, web_vars>>, <<"POR Overview", 74, por_vars>>,
                         <<"Historical Data", 105, hist_vars>>,
                         <<"Customer Metrics", 141, customer_vars>> >>

\* C30: in the output of rebuild_dashboard, for every month-indexed group with V
\* variables the record at id groupStart + i carries variable number i mod V and
\* filterValue 'current_month-(11 - i div V)', for any source data.
C30_MonthIndexing ==
    rebuilt.written =>
        \A g \in 1..Len(RebuildMonthGroups) :
            LET start == RebuildMonthGroups[g][2]
                names == RebuildMonthGroups[g][3]
                V == Len(names)
            IN  \A i \in 0..(12 * V - 1) :
                    LET rec == RecordAt(rebuilt, start + i)
                    IN  /\ rec.dataPoint = names[(i % V) + 1]
                        /\ rec.filterValue = "current_month-" \o IntToStr(11 - (i \div V))

====
